---- MODULE Spec2Model ----
(***************************************************************************)
(* Verification model of the tashkent-voxel-vision data pipeline core:     *)
(*   - the release manifest ("Artifact Ledger"): artifacts.mjs,            *)
(*     osm-fetch.mjs, init-data-release.mjs, manifest-schema.mjs           *)
(*   - the overlap-aware grid partitioner: tile-grid.mjs, mercator.mjs     *)
(*   - the seam-repair pass driven by iso-seam-inpaint.mjs                 *)
(***************************************************************************)
EXTENDS Integers, Sequences, FiniteSets, TLC

VARIABLES
    manifestFile,   \* data/releases/<run_id>/manifest.json: [exists, bytes]
    files,          \* other files on disk: path -> content id (0 = missing)
    proc,           \* one record per stage process (CLI invocation) of the run
    committed,      \* history: bytes of the last completely written manifest
    grid,           \* the grid partitioner's call: [phase, bbox, grid, overlap, tiles]
    seam,           \* the seam-repair pass: [phase, config, unit, report]
    band,           \* one seam's pixels: the two tile rows and the repair in progress
    http,           \* one generation call to the image service: [phase, attempt, ...]
    stage,          \* a pipeline stage call (render, mosaic, batch): [phase, kind, ...]
    call,           \* one call of a geometry function: [fn, args, phase, result]
    venv,           \* the Python venv on disk, its lock file and the callers of ensurePythonVenv
    workers         \* the workers of one generateImageBatch run: [phase, cursor, items, ...]

vars == <<manifestFile, files, proc, committed, grid, seam, band, http, stage, call, venv, workers>>

(***************************************************************************)
(* Bounds of the model                                                     *)
(***************************************************************************)
NumContents == 2        \* distinct file contents a stage may produce
MaxBatch == 2           \* longest absPaths list handed to addFilesToManifest

(***************************************************************************)
(* JSON values and documents                                               *)
(***************************************************************************)
\* A JSON scalar: a string, a number or null.  The same record is the token
\* that JSON.stringify emits for it.
Str(s) == [s |-> s, n |-> 0]
Num(n) == [s |-> "#", n |-> n]
Null == [s |-> "null", n |-> 0]
True == [s |-> "true", n |-> 0]
IsStr(v) == v.s \notin {"#", "null", "true"}
IsNum(v) == v.s = "#"

\* sources.osm as written by initDataRelease ({date, etag}) or by fetchOsm
\* (all nine keys; region, url and path are fixed strings).
InitOsm ==
    [fetched |-> FALSE, date |-> Null, etag |-> Null, downloaded_at |-> Null,
     sha256 |-> Null, size |-> Null, dry_run |-> Null]

\* The AOI catalogue: id -> bbox [west, south, east, north] in thousandths of
\* a degree (the crs is the same string for every entry).
AOI_CATALOG == [id \in {"tashkent"} |-> [id |-> id, bbox |-> <<69103, 41168, 69397, 41434>>]]

\* What AOI_CATALOG[aoiId] yields for a name that Object.prototype defines:
\* a truthy value whose id, bbox and crs are undefined.
UndefinedAoi == [id |-> "", bbox |-> <<>>]
PrototypeKeys == {"constructor"}

\* Ids the init command is called with.
AoiIds == {"tashkent", "samarkand", "constructor"}

\* resolveAoi over a catalogue that has a second city.
resolveAoiSecondCity(aoiId) ==
    IF aoiId = "samarkand"
    THEN [ok |-> TRUE, aoi |-> [id |-> aoiId, bbox |-> <<66800, 39550, 67100, 39750>>]]
    ELSE IF aoiId \in DOMAIN AOI_CATALOG THEN [ok |-> TRUE, aoi |-> AOI_CATALOG[aoiId]]
    ELSE IF aoiId \in PrototypeKeys THEN [ok |-> TRUE, aoi |-> UndefinedAoi]
    ELSE [ok |-> FALSE, aoi |-> UndefinedAoi]

\* resolveAoi(aoiId): the catalogue entry, or the throw for a falsy lookup.
resolveAoi(aoiId) ==
    IF aoiId \in DOMAIN AOI_CATALOG THEN [ok |-> TRUE, aoi |-> AOI_CATALOG[aoiId]]
    ELSE IF aoiId \in PrototypeKeys THEN [ok |-> TRUE, aoi |-> UndefinedAoi]
    ELSE [ok |-> FALSE, aoi |-> UndefinedAoi]

\* The manifest object in memory.  keys is the insertion order of its
\* top-level properties, which JSON.parse keeps and JSON.stringify follows.
EmptyDoc ==
    [keys |-> <<>>, created_at |-> 0, aoi |-> UndefinedAoi, osm |-> InitOsm,
     artifacts |-> <<>>]

HasKey(doc, k) == \E i \in 1..Len(doc.keys) : doc.keys[i] = k

RECURSIVE ArtifactTokens(_)
ArtifactTokens(arts) ==
    IF arts = <<>> THEN <<>>
    ELSE <<Str(Head(arts).path), Str(Head(arts).sha256), Num(Head(arts).size)>>
         \o ArtifactTokens(Tail(arts))

OsmTokens(osm) ==
    IF osm.fetched
    THEN <<Str("{"), Str("uzbekistan"), Str("url"), osm.date, osm.etag,
           osm.downloaded_at, Str("data/raw/osm/uzbekistan-latest.osm.pbf"),
           osm.sha256, osm.size, osm.dry_run, Str("}")>>
    ELSE <<Str("{"), osm.date, osm.etag, Str("}")>>

\* aoi: {id, bbox, crs}; JSON.stringify leaves out undefined properties.
AoiTokens(aoi) ==
    IF aoi = UndefinedAoi THEN <<Str("{"), Str("}")>>
    ELSE <<Str("{"), Str(aoi.id), Num(aoi.bbox[1]), Num(aoi.bbox[2]), Num(aoi.bbox[3]),
           Num(aoi.bbox[4]), Str("EPSG:4326"), Str("}")>>

ValueTokens(doc, k) ==
    CASE k = "run_id" -> <<Str("run")>>
      [] k = "created_at" -> <<Num(doc.created_at)>>
      [] k = "aoi" -> AoiTokens(doc.aoi)
      [] k = "sources" -> OsmTokens(doc.osm)
      [] k = "notes" -> <<Str("Initialized")>>
      [] k = "artifacts" ->
            <<Str("[")>> \o ArtifactTokens(doc.artifacts) \o <<Str("]")>>
      [] OTHER -> <<Str("?")>>

RECURSIVE MemberTokens(_, _)
MemberTokens(doc, i) ==
    IF i > Len(doc.keys) THEN <<>>
    ELSE <<Str(doc.keys[i])>> \o ValueTokens(doc, doc.keys[i])
         \o MemberTokens(doc, i + 1)

\* `${JSON.stringify(manifest, null, 2)}\n`
JsonStringify(doc) ==
    <<Str("{")>> \o MemberTokens(doc, 1) \o <<Str("}"), Str("\n")>>

\* JSON.parse: a recursive descent over the tokens.  A text that ends early
\* (an empty or truncated file) is a SyntaxError: ok = FALSE.
ParseFail == [ok |-> FALSE, doc |-> EmptyDoc, next |-> 0]

RECURSIVE ParseArtifacts(_, _, _)
ParseArtifacts(b, i, acc) ==
    IF i > Len(b) THEN [ok |-> FALSE, arts |-> <<>>, next |-> 0]
    ELSE IF b[i] = Str("]") THEN [ok |-> TRUE, arts |-> acc, next |-> i + 1]
    ELSE IF i + 2 > Len(b) THEN [ok |-> FALSE, arts |-> <<>>, next |-> 0]
    ELSE ParseArtifacts(b, i + 3,
            Append(acc, [path |-> b[i].s, sha256 |-> b[i + 1].s, size |-> b[i + 2].n]))

ParseOsm(b, i) ==
    IF i + 3 > Len(b) \/ b[i] # Str("{") THEN [ok |-> FALSE, osm |-> InitOsm, next |-> 0]
    ELSE IF b[i + 3] = Str("}")
    THEN [ok |-> TRUE, next |-> i + 4,
          osm |-> [InitOsm EXCEPT !.date = b[i + 1], !.etag = b[i + 2]]]
    ELSE IF i + 10 > Len(b) \/ b[i + 10] # Str("}")
    THEN [ok |-> FALSE, osm |-> InitOsm, next |-> 0]
    ELSE [ok |-> TRUE, next |-> i + 11,
          osm |-> [fetched |-> TRUE, date |-> b[i + 3], etag |-> b[i + 4],
                   downloaded_at |-> b[i + 5], sha256 |-> b[i + 7],
                   size |-> b[i + 8], dry_run |-> b[i + 9]]]

ParseAoi(b, i) ==
    IF i + 1 > Len(b) \/ b[i] # Str("{") THEN [ok |-> FALSE, aoi |-> UndefinedAoi, next |-> 0]
    ELSE IF b[i + 1] = Str("}") THEN [ok |-> TRUE, aoi |-> UndefinedAoi, next |-> i + 2]
    ELSE IF i + 7 > Len(b) \/ b[i + 7] # Str("}")
    THEN [ok |-> FALSE, aoi |-> UndefinedAoi, next |-> 0]
    ELSE [ok |-> TRUE, next |-> i + 8,
          aoi |-> [id |-> b[i + 1].s,
                   bbox |-> <<b[i + 2].n, b[i + 3].n, b[i + 4].n, b[i + 5].n>>]]

RECURSIVE ParseMembers(_, _, _)
ParseMembers(b, i, doc) ==
    IF i > Len(b) THEN ParseFail
    ELSE IF b[i] = Str("}")
    THEN IF i + 1 = Len(b) /\ b[i + 1] = Str("\n")
         THEN [ok |-> TRUE, doc |-> doc, next |-> i + 2] ELSE ParseFail
    ELSE IF i + 1 > Len(b) THEN ParseFail
    ELSE LET k == b[i].s
             d == [doc EXCEPT !.keys = Append(@, k)]
         IN  CASE k = "created_at" ->
                    ParseMembers(b, i + 2, [d EXCEPT !.created_at = b[i + 1].n])
               [] k = "aoi" ->
                    LET r == ParseAoi(b, i + 1)
                    IN  IF r.ok THEN ParseMembers(b, r.next, [d EXCEPT !.aoi = r.aoi])
                        ELSE ParseFail
               [] k = "sources" ->
                    LET r == ParseOsm(b, i + 1)
                    IN  IF r.ok THEN ParseMembers(b, r.next, [d EXCEPT !.osm = r.osm])
                        ELSE ParseFail
               [] k = "artifacts" ->
                    IF b[i + 1] # Str("[") THEN ParseFail
                    ELSE LET r == ParseArtifacts(b, i + 2, <<>>)
                         IN  IF r.ok
                             THEN ParseMembers(b, r.next, [d EXCEPT !.artifacts = r.arts])
                             ELSE ParseFail
               [] OTHER -> ParseMembers(b, i + 2, d)

JsonParse(b) ==
    IF Len(b) = 0 \/ b[1] # Str("{") THEN ParseFail
    ELSE ParseMembers(b, 2, EmptyDoc)

(***************************************************************************)
(* Schema validation                                                       *)
(***************************************************************************)
RequiredKeys == {"run_id", "created_at", "aoi", "sources", "artifacts"}
AllowedKeys == RequiredKeys \cup {"notes"}

\* The JSON schema of the manifest: required properties, no unknown ones,
\* and an aoi with its id and its four-number bbox.
ManifestSchemaHolds(doc) ==
    /\ \A k \in RequiredKeys : HasKey(doc, k)
    /\ \A i \in 1..Len(doc.keys) : doc.keys[i] \in AllowedKeys
    /\ doc.aoi.id # "" /\ Len(doc.aoi.bbox) = 4

\* validateManifest(manifest).valid
validateManifest(doc) == ManifestSchemaHolds(doc)

(***************************************************************************)
(* Files and artifacts                                                     *)
(***************************************************************************)
Stages == {"s1", "s2"}
RunFiles == {"a.json", "b.json"}
RawOsm == "data/raw/osm/uzbekistan-latest.osm.pbf"
SeamReportFile == "seam_inpaint_report.json"
\* Files the render, mosaic and batch stages and the smoke pipeline write
\* under the run directory.
TileJson == "exports/iso_whitebox/tilejson.json"
RenderReport == "exports/iso_whitebox/report.json"
TileImage == "exports/iso_whitebox/0/0_0.png"
MosaicOut(layer) == "exports/iso_whitebox/mosaic_" \o layer \o ".png"
MosaicImage == MosaicOut("sd")
MosaicReport == MosaicImage \o ".json"
BatchImage == "exports/gemini_images/0001-prompt-v01-c01.png"
BatchReport == "exports/gemini_images/report.json"
QualityReport == "exports/iso_whitebox/quality_report_whitebox_seam.json"
StageFiles ==
    {TileJson, RenderReport, TileImage, MosaicImage, MosaicReport, BatchImage,
     BatchReport, QualityReport}

AllFiles == RunFiles \cup {RawOsm, SeamReportFile} \cup StageFiles
Contents == 1..NumContents

\* crypto.createHash('sha256') of a content: one digest per content.
ShaTable == <<"aa", "bb", "cc">>
sha256File(c) == ShaTable[c]
\* stats.size of a content: contents 1 and 3 have the same length.
SizeTable == <<100, 120, 100>>
statSize(c) == SizeTable[c]

RECURSIVE IndexByPath(_, _, _)
\* The Map built by the first loop of upsertArtifacts: a later entry with the
\* same path overwrites the index of an earlier one.
IndexByPath(arts, i, m) ==
    IF i > Len(arts) THEN m
    ELSE IndexByPath(arts, i + 1,
            IF arts[i].path # "" THEN [m EXCEPT ![arts[i].path] = i] ELSE m)

\* UpsertStep without `indexByPath.set` after the push.
UpsertStepNoIndex(st, a) ==
    IF a.path = "" THEN st
    ELSE IF st.map[a.path] = 0
    THEN [arts |-> Append(st.arts, a), map |-> st.map]
    ELSE [arts |-> [st.arts EXCEPT ![st.map[a.path]] = a], map |-> st.map]

\* UpsertStep that keeps the entry a known path already has.
UpsertStepKeepOld(st, a) ==
    IF a.path = "" THEN st
    ELSE IF st.map[a.path] = 0
    THEN [arts |-> Append(st.arts, a),
          map |-> [st.map EXCEPT ![a.path] = Len(st.arts) + 1]]
    ELSE st

\* One iteration of the second loop of upsertArtifacts on state <<arts, map>>.
UpsertStep(st, a) ==
    IF a.path = "" THEN st
    ELSE IF st.map[a.path] = 0
    THEN [arts |-> Append(st.arts, a),
          map |-> [st.map EXCEPT ![a.path] = Len(st.arts) + 1]]
    ELSE [arts |-> [st.arts EXCEPT ![st.map[a.path]] = a], map |-> st.map]

RECURSIVE UpsertLoop(_, _)
UpsertLoop(st, batch) ==
    IF batch = <<>> THEN st
    ELSE UpsertLoop(UpsertStep(st, Head(batch)), Tail(batch))

\* Appends key k to the object when it is not yet a property of it.
EnsureKey(doc, k) ==
    IF HasKey(doc, k) THEN doc ELSE [doc EXCEPT !.keys = Append(@, k)]

RECURSIVE RemovePath(_, _)
RemovePath(arts, path) ==
    IF arts = <<>> THEN <<>>
    ELSE IF Head(arts).path = path THEN RemovePath(Tail(arts), path)
    ELSE <<Head(arts)>> \o RemovePath(Tail(arts), path)

RECURSIVE MoveToEnd(_, _)
MoveToEnd(arts, batch) ==
    IF batch = <<>> THEN arts
    ELSE MoveToEnd(Append(RemovePath(arts, Head(batch).path), Head(batch)), Tail(batch))

\* upsertArtifacts that deletes the old entry and pushes the new one.
upsertArtifactsMoveToEnd(doc, batch) ==
    LET d == IF HasKey(doc, "artifacts") THEN doc
             ELSE [EnsureKey(doc, "artifacts") EXCEPT !.artifacts = <<>>]
    IN  [d EXCEPT !.artifacts = MoveToEnd(d.artifacts, batch)]

\* upsertArtifacts(manifest, artifacts)
upsertArtifacts(doc, batch) ==
    LET d == IF HasKey(doc, "artifacts") THEN doc
             ELSE [EnsureKey(doc, "artifacts") EXCEPT !.artifacts = <<>>]
        st == UpsertLoop(
                [arts |-> d.artifacts,
                 map |-> IndexByPath(d.artifacts, 1, [p \in AllFiles \cup {""} |-> 0])],
                batch)
    IN  [d EXCEPT !.artifacts = st.arts]

\* artifacts.findIndex((a) => a?.path === path): the first match, 0 for -1.
FindIndex(arts, path) ==
    IF \E i \in 1..Len(arts) : arts[i].path = path
    THEN CHOOSE i \in 1..Len(arts) :
            /\ arts[i].path = path
            /\ \A j \in 1..(i - 1) : arts[j].path # path
    ELSE 0

\* upsertArtifact(artifacts, artifact) of osm-fetch.mjs
upsertArtifact(arts, a) ==
    IF FindIndex(arts, a.path) = 0 THEN Append(arts, a)
    ELSE [arts EXCEPT ![FindIndex(arts, a.path)] = a]

(***************************************************************************)
(* Stage processes                                                         *)
(***************************************************************************)
Time(n) == [s |-> "t", n |-> n]
Times == 1..2

IdleProc ==
    [pc |-> "idle", op |-> "none", manifest |-> EmptyDoc, absPaths |-> <<>>,
     artifacts |-> <<>>, size |-> 0, err |-> "", readBytes |-> <<>>,
     dryRun |-> FALSE, force |-> FALSE, now |-> 0, alreadyExists |-> FALSE,
     osm |-> InitOsm, aoiId |-> ""]

\* A call has ended: it returned, threw, or its process was interrupted.
Ended == {"returned", "threw", "killed"}

Throw(s, e) == [proc EXCEPT ![s].pc = "threw", ![s].err = e]

MissingFile == [exists |-> FALSE, bytes |-> <<>>]

\* Stage s, between two calls, writes (or rewrites) one of its output files.
ProduceFile(s, p, c) ==
    /\ proc[s].pc = "idle"
    /\ p \in RunFiles
    /\ files[p] # c
    /\ files' = [files EXCEPT ![p] = c]
    /\ UNCHANGED <<manifestFile, proc, committed, grid, seam, band, http, stage, call, venv, workers>>

\* ---- addFilesToManifest({ manifestPath, runRoot, absPaths })
\* The output file the pipeline's stage writes and registers.
StageOutputs == {"a.json"}

Batches == UNION {[1..n -> StageOutputs] : n \in 1..MaxBatch}

StartAddFiles(s, paths) ==
    /\ proc[s].pc = "idle"
    /\ proc' = [proc EXCEPT ![s] =
                    [IdleProc EXCEPT !.pc = "add_exists", !.op = "add", !.absPaths = paths]]
    /\ UNCHANGED <<manifestFile, files, committed, grid, seam, band, http, stage, call, venv, workers>>

AddExists(s) ==
    /\ proc[s].pc = "add_exists"
    /\ proc' = IF manifestFile.exists THEN [proc EXCEPT ![s].pc = "add_read"]
               ELSE Throw(s, "missing-manifest")
    /\ UNCHANGED <<manifestFile, files, committed, grid, seam, band, http, stage, call, venv, workers>>

AddRead(s) ==
    /\ proc[s].pc = "add_read"
    /\ LET r == JsonParse(manifestFile.bytes)
       IN  proc' = IF r.ok
                   THEN [proc EXCEPT ![s].pc = "add_stat", ![s].manifest = r.doc,
                                     ![s].readBytes = manifestFile.bytes]
                   ELSE Throw(s, "syntax")
    /\ UNCHANGED <<manifestFile, files, committed, grid, seam, band, http, stage, call, venv, workers>>

\* buildArtifact: fs.stat(absFilePath)
AddStat(s) ==
    /\ proc[s].pc = "add_stat"
    /\ LET p == proc[s].absPaths[Len(proc[s].artifacts) + 1]
       IN  proc' = IF files[p] = 0 THEN Throw(s, "enoent")
                   ELSE [proc EXCEPT ![s].pc = "add_hash", ![s].size = statSize(files[p])]
    /\ UNCHANGED <<manifestFile, files, committed, grid, seam, band, http, stage, call, venv, workers>>

\* buildArtifact: sha256File(absFilePath), then the artifact object
AddHash(s) ==
    /\ proc[s].pc = "add_hash"
    /\ LET p == proc[s].absPaths[Len(proc[s].artifacts) + 1]
           a == [path |-> p, sha256 |-> sha256File(files[p]), size |-> proc[s].size]
           built == Append(proc[s].artifacts, a)
       IN  proc' = [proc EXCEPT ![s].artifacts = built,
                                ![s].pc = IF Len(built) = Len(proc[s].absPaths)
                                          THEN "add_upsert" ELSE "add_stat"]
    /\ UNCHANGED <<manifestFile, files, committed, grid, seam, band, http, stage, call, venv, workers>>

\* AddUpsert with the file written before the validation.
AddUpsertWriteFirst(s) ==
    /\ proc[s].pc = "add_upsert"
    /\ LET m == upsertArtifacts(proc[s].manifest, proc[s].artifacts)
       IN  /\ manifestFile' = [exists |-> TRUE, bytes |-> JsonStringify(m)]
           /\ proc' = IF validateManifest(m)
                       THEN [proc EXCEPT ![s].pc = "write_open", ![s].manifest = m]
                       ELSE [Throw(s, "schema") EXCEPT ![s].manifest = m]
    /\ UNCHANGED <<files, committed, grid, seam, band, http, stage, call, venv, workers>>

\* upsertArtifacts, validateManifest and the throw on an invalid result
AddUpsert(s) ==
    /\ proc[s].pc = "add_upsert"
    /\ LET m == upsertArtifacts(proc[s].manifest, proc[s].artifacts)
       IN  proc' = IF validateManifest(m)
                   THEN [proc EXCEPT ![s].pc = "write_open", ![s].manifest = m]
                   ELSE [Throw(s, "schema") EXCEPT ![s].manifest = m]
    /\ UNCHANGED <<manifestFile, files, committed, grid, seam, band, http, stage, call, venv, workers>>

\* fs.writeFile(manifestPath, ...): open with flag 'w' truncates the file ...
WriteOpen(s) ==
    /\ proc[s].pc = "write_open"
    /\ manifestFile' = [exists |-> TRUE, bytes |-> <<>>]
    /\ proc' = [proc EXCEPT ![s].pc = "write_data"]
    /\ UNCHANGED <<files, committed, grid, seam, band, http, stage, call, venv, workers>>

\* ... and the data is written afterwards; the call then returns.
WriteData(s) ==
    /\ proc[s].pc = "write_data"
    /\ manifestFile' = [exists |-> TRUE, bytes |-> JsonStringify(proc[s].manifest)]
    /\ committed' = manifestFile'
    /\ proc' = [proc EXCEPT ![s].pc = "returned"]
    /\ UNCHANGED <<files, grid, seam, band, http, stage, call, venv, workers>>

\* The process is interrupted (SIGINT, SIGKILL, crash) in the middle of a call.
Kill(s) ==
    /\ proc[s].pc \notin Ended \cup {"idle"}
    /\ proc' = [proc EXCEPT ![s].pc = "killed"]
    /\ UNCHANGED <<manifestFile, files, committed, grid, seam, band, http, stage, call, venv, workers>>

\* The CLI process of an ended call exits; the stage is free for its next call.
Exit(s) ==
    /\ proc[s].pc \in Ended
    /\ proc' = [proc EXCEPT ![s] = IdleProc]
    /\ UNCHANGED <<manifestFile, files, committed, grid, seam, band, http, stage, call, venv, workers>>

\* ---- initDataRelease({ repoRoot, runId, aoiId, now, force })
FreshManifest(now, aoi) ==
    [keys |-> <<"run_id", "created_at", "aoi", "sources", "notes", "artifacts">>,
     created_at |-> now, aoi |-> aoi, osm |-> InitOsm, artifacts |-> <<>>]

StartInit(s, force, now, aoiId) ==
    /\ proc[s].pc = "idle"
    /\ proc' = [proc EXCEPT ![s] =
                    [IdleProc EXCEPT !.pc = "init_check", !.op = "init",
                                     !.force = force, !.now = now, !.aoiId = aoiId]]
    /\ UNCHANGED <<manifestFile, files, committed, grid, seam, band, http, stage, call, venv, workers>>

\* resolveAoi, the fileExists guard, then the manifest object and its validation
InitCheck(s) ==
    /\ proc[s].pc = "init_check"
    /\ LET r == resolveAoi(proc[s].aoiId)
           m == FreshManifest(proc[s].now, r.aoi)
       IN  proc' = IF ~r.ok THEN Throw(s, "unknown-aoi")
                   ELSE IF ~proc[s].force /\ manifestFile.exists THEN Throw(s, "exists")
                   ELSE IF validateManifest(m)
                   THEN [proc EXCEPT ![s].pc = "write_open", ![s].manifest = m,
                                     ![s].readBytes = manifestFile.bytes]
                   ELSE Throw(s, "generated-schema")
    /\ UNCHANGED <<manifestFile, files, committed, grid, seam, band, http, stage, call, venv, workers>>

\* ---- fetchOsm({ repoRoot, runId, region, now, dryRun })
StartFetchOsm(s, dryRun, now) ==
    /\ proc[s].pc = "idle"
    /\ proc' = [proc EXCEPT ![s] =
                    [IdleProc EXCEPT !.pc = "osm_exists", !.op = "osm",
                                     !.dryRun = dryRun, !.now = now]]
    /\ UNCHANGED <<manifestFile, files, committed, grid, seam, band, http, stage, call, venv, workers>>

OsmExists(s) ==
    /\ proc[s].pc = "osm_exists"
    /\ proc' = IF manifestFile.exists THEN [proc EXCEPT ![s].pc = "osm_read"]
               ELSE Throw(s, "missing-manifest")
    /\ UNCHANGED <<manifestFile, files, committed, grid, seam, band, http, stage, call, venv, workers>>

StringOrNull(v) == IF IsStr(v) THEN v ELSE Null

\* readJson(manifestPath), the previous etag/date/downloaded_at, fileExists(rawAbsPath)
OsmRead(s) ==
    /\ proc[s].pc = "osm_read"
    /\ LET r == JsonParse(manifestFile.bytes)
           prev == IF HasKey(r.doc, "sources") THEN r.doc.osm ELSE InitOsm
       IN  proc' = IF r.ok
                   THEN [proc EXCEPT ![s].pc = "osm_fetch", ![s].manifest = r.doc,
                             ![s].readBytes = manifestFile.bytes,
                             ![s].alreadyExists = (files[RawOsm] # 0),
                             ![s].osm = [InitOsm EXCEPT
                                            !.fetched = TRUE,
                                            !.etag = StringOrNull(prev.etag),
                                            !.date = StringOrNull(prev.date),
                                            !.downloaded_at = StringOrNull(prev.downloaded_at)]]
                   ELSE Throw(s, "syntax")
    /\ UNCHANGED <<manifestFile, files, committed, grid, seam, band, http, stage, call, venv, workers>>

\* downloadWithSha256 (the file appears by rename), or stat + sha256File of the
\* file already there, or neither (dry run without a file)
OsmFetch(s) ==
    /\ proc[s].pc = "osm_fetch"
    /\ \/ /\ ~proc[s].alreadyExists /\ ~proc[s].dryRun
          /\ \E c \in Contents, hdr \in BOOLEAN :
               /\ files' = [files EXCEPT ![RawOsm] = c]
               /\ proc' = [proc EXCEPT ![s].pc = "osm_update",
                             ![s].osm = [@ EXCEPT
                                 !.etag = IF hdr THEN Str("etag") ELSE @,
                                 !.date = IF hdr THEN Str("date") ELSE @,
                                 !.sha256 = Str(sha256File(c)),
                                 !.size = Num(statSize(c)),
                                 !.downloaded_at = Time(proc[s].now)]]
       \/ /\ ~proc[s].alreadyExists /\ ~proc[s].dryRun
          /\ proc' = Throw(s, "download")
          /\ UNCHANGED files
       \/ /\ proc[s].alreadyExists
          /\ proc' = [proc EXCEPT ![s].pc = "osm_update",
                        ![s].osm = [@ EXCEPT
                            !.size = Num(statSize(files[RawOsm])),
                            !.sha256 = Str(sha256File(files[RawOsm])),
                            !.downloaded_at =
                                IF @ = Null THEN Time(proc[s].now) ELSE @]]
          /\ UNCHANGED files
       \/ /\ ~proc[s].alreadyExists /\ proc[s].dryRun
          /\ proc' = [proc EXCEPT ![s].pc = "osm_update"]
          /\ UNCHANGED files
    /\ UNCHANGED <<manifestFile, committed, grid, seam, band, http, stage, call, venv, workers>>

\* The updated manifest of fetchOsm: sources.osm replaced, the artifact upserted.
OsmUpdated(doc, osm, dryRun) ==
    LET d1 == EnsureKey(doc, "sources")
        d2 == [d1 EXCEPT !.osm = [osm EXCEPT !.dry_run = IF dryRun THEN True ELSE Null]]
        d3 == IF HasKey(d2, "artifacts") THEN d2
              ELSE [EnsureKey(d2, "artifacts") EXCEPT !.artifacts = <<>>]
    IN  IF osm.sha256 # Null /\ osm.size # Null
        THEN [d3 EXCEPT !.artifacts =
                upsertArtifact(@, [path |-> RawOsm, sha256 |-> osm.sha256.s,
                                   size |-> osm.size.n])]
        ELSE d3

\* An update that compares nothing with the values the manifest records.
OsmUpdateUnguarded(s) ==
    /\ proc[s].pc = "osm_update"
    /\ LET m == OsmUpdated(proc[s].manifest, proc[s].osm, proc[s].dryRun)
       IN  proc' =
             IF validateManifest(m)
             THEN [proc EXCEPT ![s].pc = "write_open", ![s].manifest = m]
             ELSE [Throw(s, "schema") EXCEPT ![s].manifest = m]
    /\ UNCHANGED <<manifestFile, files, committed, grid, seam, band, http, stage, call, venv, workers>>

\* the drift guards, the update of the manifest object, validateManifest
OsmUpdate(s) ==
    /\ proc[s].pc = "osm_update"
    /\ LET old == IF HasKey(proc[s].manifest, "sources") THEN proc[s].manifest.osm
                  ELSE InitOsm
           new == proc[s].osm
           m == OsmUpdated(proc[s].manifest, new, proc[s].dryRun)
       IN  proc' =
             IF new.sha256 # Null /\ IsStr(old.sha256) /\ old.sha256 # new.sha256
             THEN Throw(s, "sha256-mismatch")
             ELSE IF new.size # Null /\ IsNum(old.size) /\ old.size # new.size
             THEN Throw(s, "size-mismatch")
             ELSE IF validateManifest(m)
             THEN [proc EXCEPT ![s].pc = "write_open", ![s].manifest = m]
             ELSE [Throw(s, "schema") EXCEPT ![s].manifest = m]
    /\ UNCHANGED <<manifestFile, files, committed, grid, seam, band, http, stage, call, venv, workers>>

(***************************************************************************)
(* The ledger: stages of one run working on its manifest                   *)
(***************************************************************************)
\* A manifest left by an earlier tool version: an unknown top-level property.
LegacyManifest ==
    [keys |-> <<"run_id", "created_at", "aoi", "sources", "tool", "artifacts">>,
     created_at |-> 1, aoi |-> AOI_CATALOG["tashkent"], osm |-> InitOsm,
     artifacts |-> <<>>]

GridIdle == [phase |-> "off"]
SeamIdle == [phase |-> "off"]
BandIdle == [phase |-> "off"]
HttpIdle == [phase |-> "off"]
StageIdle == [phase |-> "off"]
CallIdle == [phase |-> "off"]
VenvIdle == [phase |-> "off"]
WorkersIdle == [phase |-> "off"]

InitLedger ==
    /\ manifestFile \in {MissingFile,
                         [exists |-> TRUE, bytes |-> JsonStringify(LegacyManifest)]}
    /\ committed = manifestFile
    /\ files \in {[p \in AllFiles |-> IF p = RawOsm THEN c ELSE 0] : c \in 0..1}
    /\ proc = [s \in Stages |-> IdleProc]
    /\ grid = GridIdle
    /\ seam = SeamIdle
    /\ band = BandIdle
    /\ http = HttpIdle
    /\ stage = StageIdle
    /\ call = CallIdle
    /\ venv = VenvIdle
    /\ workers = WorkersIdle

\* One pipeline process runs the stages of the run one after the other.
Pipeline == "s1"

NextLedger ==
    \/ \E s \in {Pipeline} :
        \/ \E p \in StageOutputs, c \in Contents : ProduceFile(s, p, c)
        \/ \E b \in Batches : StartAddFiles(s, b)
        \/ AddExists(s)
        \/ AddRead(s)
        \/ AddStat(s)
        \/ AddHash(s)
        \/ AddUpsert(s)
        \/ \E force \in BOOLEAN, aoiId \in AoiIds : StartInit(s, force, 1, aoiId)
        \/ InitCheck(s)
        \/ \E dryRun \in BOOLEAN, now \in Times : StartFetchOsm(s, dryRun, now)
        \/ OsmExists(s)
        \/ OsmRead(s)
        \/ OsmFetch(s)
        \/ OsmUpdate(s)
        \/ WriteOpen(s)
        \/ WriteData(s)
        \/ Kill(s)
        \/ Exit(s)

SpecLedger == InitLedger /\ [][NextLedger]_vars

(***************************************************************************)
(* Two stages of the same run, each making one upsert call, interleaved    *)
(***************************************************************************)
InitRace ==
    /\ manifestFile = [exists |-> TRUE, bytes |-> JsonStringify(FreshManifest(1, AOI_CATALOG["tashkent"]))]
    /\ committed = manifestFile
    /\ files \in {[p \in AllFiles |-> IF p = RawOsm THEN o
                                      ELSE IF p \in RunFiles THEN r[p] ELSE 0] :
                    o \in 0..NumContents, r \in [RunFiles -> 1..NumContents]}
    /\ proc = [s \in Stages |-> IdleProc]
    /\ grid = GridIdle
    /\ seam = SeamIdle
    /\ band = BandIdle
    /\ http = HttpIdle
    /\ stage = StageIdle
    /\ call = CallIdle
    /\ venv = VenvIdle
    /\ workers = WorkersIdle

NextRace ==
    \/ StartAddFiles("s1", <<"a.json">>)
    \/ StartAddFiles("s2", <<"b.json">>)
    \/ \E dryRun \in BOOLEAN, now \in Times : StartFetchOsm("s2", dryRun, now)
    \/ \E s \in Stages :
        \/ AddExists(s)
        \/ AddRead(s)
        \/ AddStat(s)
        \/ AddHash(s)
        \/ AddUpsert(s)
        \/ OsmExists(s)
        \/ OsmRead(s)
        \/ OsmFetch(s)
        \/ OsmUpdate(s)
        \/ WriteOpen(s)
        \/ WriteData(s)

SpecRace == InitRace /\ [][NextRace]_vars

(***************************************************************************)
(* Properties of the ledger                                                *)
(***************************************************************************)
\* The parsed manifest on disk.
DiskDoc == JsonParse(manifestFile.bytes)

Holds(arts, a) == \E i \in 1..Len(arts) : arts[i] = a

NoDuplicatePaths(arts) ==
    \A i, j \in 1..Len(arts) : arts[i].path = arts[j].path => i = j

\* The artifacts a finished call has upserted.
Upserted(s) ==
    IF proc[s].op = "add" THEN proc[s].artifacts
    ELSE IF proc[s].op = "osm" /\ proc[s].osm.sha256 # Null /\ proc[s].osm.size # Null
    THEN <<[path |-> RawOsm, sha256 |-> proc[s].osm.sha256.s, size |-> proc[s].osm.size.n]>>
    ELSE <<>>

\* C1: upserts to one run's ledger are serialized: once two stages that upsert
\* artifacts with different paths have both finished, whatever the interleaving
\* of their steps, the ledger on disk holds the artifacts of both.
C1_NoUpsertLost ==
    (\A s \in Stages : proc[s].pc = "returned") =>
        /\ DiskDoc.ok
        /\ \A s \in Stages : \A i \in 1..Len(Upserted(s)) :
              Holds(DiskDoc.doc.artifacts, Upserted(s)[i])

\* C2: an upsert whose resulting document fails schema validation throws, and
\* the ledger file is byte for byte what the call read.
C2_InvalidUpsertRejected ==
    \A s \in Stages :
        (proc[s].pc = "threw" /\ proc[s].err = "schema") =>
            /\ manifestFile.exists
            /\ manifestFile.bytes = proc[s].readBytes
            /\ ~validateManifest(proc[s].manifest)

C2_Witness ==
    \E s \in Stages :
        /\ proc[s].pc = "threw" /\ proc[s].err = "schema" /\ proc[s].op = "add"
        /\ Len(proc[s].artifacts) > 0

\* C3: whenever a call has been interrupted, also in the middle of the ledger
\* write, and a ledger had been persisted before, the ledger file is that
\* complete document.
C3_InterruptKeepsLedger ==
    \A s \in Stages :
        (proc[s].pc = "killed" /\ committed.exists) =>
            /\ manifestFile = committed
            /\ DiskDoc.ok

\* C6: no two entries of the artifacts array have the same path, in the
\* document an upsert has produced and in the ledger on disk.
C6_UniquePaths ==
    /\ DiskDoc.ok => NoDuplicatePaths(DiskDoc.doc.artifacts)
    /\ \A s \in Stages :
          proc[s].pc \in {"write_open", "write_data", "returned"} =>
              NoDuplicatePaths(proc[s].manifest.artifacts)

\* An upsert whose batch names a.json twice has been persisted.
C6_Witness ==
    \E s \in Stages :
        /\ proc[s].pc = "returned"
        /\ proc[s].absPaths = <<"a.json", "a.json">>
        /\ DiskDoc.ok
        /\ \E i \in 1..Len(DiskDoc.doc.artifacts) : DiskDoc.doc.artifacts[i].path = "a.json"

\* The call of stage s repeats an upsert the document it read already holds:
\* the same artifacts, and for fetchOsm the same recorded extract and mode.
SameUpsertAgain(s) ==
    LET before == JsonParse(proc[s].readBytes).doc
    IN  \/ /\ proc[s].op = "add"
           /\ \A i \in 1..Len(proc[s].artifacts) :
                 Holds(before.artifacts, proc[s].artifacts[i])
        \/ /\ proc[s].op = "osm"
           /\ before.osm.fetched
           /\ before.osm.sha256 = proc[s].osm.sha256
           /\ before.osm.size = proc[s].osm.size
           /\ before.osm.dry_run = (IF proc[s].dryRun THEN True ELSE Null)

\* C7: an upsert that is performed a second time with the same path and the
\* same file content persists a document byte-identical to the first one's.
C7_UpsertIdempotent ==
    \A s \in Stages :
        (proc[s].pc = "returned" /\ SameUpsertAgain(s)) =>
            manifestFile.bytes = proc[s].readBytes

C7_Witness ==
    \E s \in Stages :
        /\ proc[s].pc = "returned" /\ SameUpsertAgain(s)
        /\ Len(Upserted(s)) > 0
        /\ Len(JsonParse(proc[s].readBytes).doc.artifacts) > 1

(***************************************************************************)
(* Projection (mercator.mjs) and grid partition (tile-grid.mjs)            *)
(*                                                                         *)
(* Degrees are integers in thousandths of a degree; Web-Mercator           *)
(* coordinates are fixed-point numbers whose unit is one metre.  A         *)
(* floating-point division or multiplication by a fraction becomes a       *)
(* division rounded to the nearest unit.                                   *)
(***************************************************************************)
MaxGrid == 3            \* largest valid grid size the partitioner is called with

GridLimit == 64         \* grid > 64 is rejected
OverlapLimit == 49      \* overlap >= 0.49 is rejected (hundredths)
OverlapDen == 100       \* overlap is a fraction of tile size, in hundredths
MAX_LAT == 85051        \* 85.05112878 degrees

\* a / b rounded to the nearest integer (b > 0)
RoundDiv(a, b) == (2 * a + b) \div (2 * b)

Abs(a) == IF a < 0 THEN 0 - a ELSE a

Min(a, b) == IF a < b THEN a ELSE b

Max(a, b) == IF a < b THEN b ELSE a

\* JavaScript numbers that take part in no arithmetic: NaN, Infinity,
\* -Infinity, and 2.5, the finite number that is no integer.  Each is
\* modelled as a value outside the range of the coordinates.
NaN == 1999999999
Infinity == 2000000000
NegInfinity == 0 - Infinity
TwoAndHalf == 1999999998

\* Number.isFinite(v)
isFinite(v) == v \notin {NaN, Infinity, NegInfinity}
\* Number.isInteger(v)
isInteger(v) == isFinite(v) /\ v # TwoAndHalf

\* Twice the value, so that 2.5 has its place among the integers.
Twice(v) == IF v = TwoAndHalf THEN 5 ELSE IF isFinite(v) THEN 2 * v ELSE v
\* a < b and a <= b on JavaScript numbers: false when one of them is NaN
Lt(a, b) == a # NaN /\ b # NaN /\ Twice(a) < Twice(b)
Le(a, b) == a # NaN /\ b # NaN /\ Twice(a) <= Twice(b)

\* Callers test isFinite(lat) first: the throw is in lonLatToWebMercator.
clampLatDeg(lat) == Max(0 - MAX_LAT, Min(MAX_LAT, lat))

\* x = R * lonRad, tabulated at the sampled longitudes
MercatorX ==
    [lon \in {-1000, 0, 1000, 10000, 69103, 69397} |->
        CASE lon = -1000 -> -111319
          [] lon = 0     -> 0
          [] lon = 1000  -> 111319
          [] lon = 10000 -> 1113195
          [] lon = 69103 -> 7692511
          [] lon = 69397 -> 7725239]

\* y = R * log(tan(PI/4 + latRad/2)), tabulated at the sampled latitudes
MercatorY ==
    [lat \in {-1000, 0, 1000, 41168, 41434, 80000, MAX_LAT} |->
        CASE lat = -1000   -> -111325
          [] lat = 0       -> 0
          [] lat = 1000    -> 111325
          [] lat = 41168   -> 5037153
          [] lat = 41434   -> 5076569
          [] lat = 80000   -> 15538711
          [] lat = MAX_LAT -> 20037508]

\* The result of a conversion that threw.
InvalidCoordinate(what) == [ok |-> FALSE, err |-> what, x |-> 0, y |-> 0]

\* lonLatToWebMercator with its two argument checks left out.
lonLatToWebMercatorUnchecked(lonDeg, latDeg) ==
    [ok |-> TRUE, err |-> "",
     x |-> IF isFinite(lonDeg) THEN MercatorX[lonDeg] ELSE lonDeg,
     y |-> IF isFinite(latDeg) THEN MercatorY[clampLatDeg(latDeg)] ELSE latDeg]

lonLatToWebMercator(lonDeg, latDeg) ==
    IF ~isFinite(lonDeg) THEN InvalidCoordinate("Invalid longitude")
    ELSE IF ~isFinite(latDeg) THEN InvalidCoordinate("Invalid latitude")
    ELSE [ok |-> TRUE, err |-> "",
          x |-> MercatorX[lonDeg], y |-> MercatorY[clampLatDeg(latDeg)]]

\* [w, s, e, n] in degrees -> [x0, y0, x1, y1] in metres; ok is FALSE when one
\* of the four conversions threw.
wgs84BboxToWebMercatorBbox(bbox) ==
    LET pW == lonLatToWebMercator(bbox[1], 0)
        pE == lonLatToWebMercator(bbox[3], 0)
        pS == lonLatToWebMercator(0, bbox[2])
        pN == lonLatToWebMercator(0, bbox[4])
    IN  [ok |-> pW.ok /\ pE.ok /\ pS.ok /\ pN.ok,
         box |-> <<pW.x, pS.y, pE.x, pN.y>>]

TashkentBbox == <<69103, 41168, 69397, 41434>>

\* AOI boxes handed to the partitioner: the catalogue's AOI, a box across the
\* equator and the prime meridian, a box whose north edge is clamped, a box
\* of zero width and a box that the clamp flattens to zero height.
AoiBboxes ==
    {TashkentBbox,
     <<-1000, -1000, 1000, 1000>>,
     <<0, 80000, 10000, 90000>>,
     <<69103, 41168, 69103, 41434>>,
     <<0, MAX_LAT, 10000, 90000>>}

\* Boxes with a coordinate that is no finite number.
NonFiniteBboxes ==
    {<<NaN, 41168, 69397, 41434>>,
     <<69103, 41168, 69397, Infinity>>}

GridSizes == {0, GridLimit + 1, TwoAndHalf, NaN} \cup (1..MaxGrid)

Overlaps == {-1, 0, 10, 48, OverlapLimit, NaN, Infinity}

\* A core box with its rows one half-step out of place.
CoreBoxRowSkew(x0, y1, dx, dy, x, y) ==
    <<x0 + dx * x, y1 - dy * (y + 1) - (dy \div 2), x0 + dx * (x + 1), y1 - dy * y>>

\* bbox3857 of tile (x, y): [xMin, yMin, xMax, yMax]
CoreBox(x0, y1, dx, dy, x, y) ==
    <<x0 + dx * x, y1 - dy * (y + 1), x0 + dx * (x + 1), y1 - dy * y>>

\* A context box with the margin taken off the core on every side.
ContextBoxInward(core, ox, oy) ==
    <<core[1] + ox, core[2] + oy, core[3] - ox, core[4] - oy>>

\* A context box that grows only towards the east and the north.
ContextBoxOneSided(core, ox, oy) ==
    <<core[1], core[2], core[3] + ox, core[4] + oy>>

\* bbox3857Overlap: the core grown by the margin on every side
ContextBox(core, ox, oy) ==
    <<core[1] - ox, core[2] - oy, core[3] + ox, core[4] + oy>>

GridCall ==
    [phase |-> "idle", bbox |-> <<0, 0, 0, 0>>, grid |-> 0, overlap |-> 0,
     x0 |-> 0, y0 |-> 0, x1 |-> 0, y1 |-> 0, dx |-> 0, dy |-> 0, ox |-> 0, oy |-> 0,
     x |-> 0, y |-> 0, tiles |-> <<>>, err |-> ""]

\* splitBboxGridWgs84({bbox, grid, overlap}) is called.
StartSplit(bbox, g, overlap) ==
    /\ grid.phase = "idle"
    /\ grid' = [GridCall EXCEPT !.phase = "validate", !.bbox = bbox, !.grid = g,
                                !.overlap = overlap]
    /\ UNCHANGED <<manifestFile, files, proc, committed, seam, band, http, stage, call, venv, workers>>

\* The argument checks with the range tests only.
SplitValidateRangeOnly ==
    /\ grid.phase = "validate"
    /\ grid' = IF Le(grid.grid, 0) \/ Lt(GridLimit, grid.grid)
               THEN [grid EXCEPT !.phase = "threw", !.err = "grid"]
               ELSE IF Lt(grid.overlap, 0) \/ Le(OverlapLimit, grid.overlap)
               THEN [grid EXCEPT !.phase = "threw", !.err = "overlap"]
               ELSE [grid EXCEPT !.phase = "project"]
    /\ UNCHANGED <<manifestFile, files, proc, committed, seam, band, http, stage, call, venv, workers>>

\* The argument checks.
SplitValidate ==
    /\ grid.phase = "validate"
    /\ grid' = IF ~isInteger(grid.grid) \/ Le(grid.grid, 0) \/ Lt(GridLimit, grid.grid)
               THEN [grid EXCEPT !.phase = "threw", !.err = "grid"]
               ELSE IF ~isFinite(grid.overlap) \/ Lt(grid.overlap, 0)
                       \/ Le(OverlapLimit, grid.overlap)
               THEN [grid EXCEPT !.phase = "threw", !.err = "overlap"]
               ELSE [grid EXCEPT !.phase = "project"]
    /\ UNCHANGED <<manifestFile, files, proc, committed, seam, band, http, stage, call, venv, workers>>

\* The projection of the bbox, the degenerate check, the tile size and margin.
SplitProject ==
    /\ grid.phase = "project"
    /\ LET r == wgs84BboxToWebMercatorBbox(grid.bbox)
           b == r.box
           w == b[3] - b[1]
           h == b[4] - b[2]
           dx == RoundDiv(w, grid.grid)
           dy == RoundDiv(h, grid.grid)
       IN  grid' = IF ~r.ok
                   THEN [grid EXCEPT !.phase = "threw", !.err = "coordinate"]
                   ELSE IF ~(w > 0 /\ h > 0)
                   THEN [grid EXCEPT !.phase = "threw", !.err = "degenerate"]
                   ELSE [grid EXCEPT !.phase = "loop",
                                     !.x0 = b[1], !.y0 = b[2], !.x1 = b[3], !.y1 = b[4],
                                     !.dx = dx, !.dy = dy,
                                     !.ox = RoundDiv(dx * grid.overlap, OverlapDen),
                                     !.oy = RoundDiv(dy * grid.overlap, OverlapDen)]
    /\ UNCHANGED <<manifestFile, files, proc, committed, seam, band, http, stage, call, venv, workers>>

\* One iteration of the inner loop: tile (x, y) is pushed; the return follows
\* the last one.
SplitTile ==
    /\ grid.phase = "loop"
    /\ LET core == CoreBox(grid.x0, grid.y1, grid.dx, grid.dy, grid.x, grid.y)
           tile == [z |-> 0, x |-> grid.x, y |-> grid.y, bbox_3857 |-> core,
                    bbox_overlap_3857 |-> ContextBox(core, grid.ox, grid.oy)]
           lastX == grid.x + 1 = grid.grid
           lastY == grid.y + 1 = grid.grid
       IN  grid' = [grid EXCEPT !.tiles = Append(@, tile),
                                !.x = IF lastX THEN 0 ELSE @ + 1,
                                !.y = IF lastX THEN @ + 1 ELSE @,
                                !.phase = IF lastX /\ lastY THEN "returned" ELSE "loop"]
    /\ UNCHANGED <<manifestFile, files, proc, committed, seam, band, http, stage, call, venv, workers>>

\* The caller takes the result (or the error); the next call may start.
SplitExit ==
    /\ grid.phase \in {"returned", "threw"}
    /\ grid' = GridCall
    /\ UNCHANGED <<manifestFile, files, proc, committed, seam, band, http, stage, call, venv, workers>>

InitGrid ==
    /\ manifestFile = MissingFile
    /\ committed = MissingFile
    /\ files = [p \in AllFiles |-> 0]
    /\ proc = [s \in Stages |-> IdleProc]
    /\ grid = GridCall
    /\ seam = SeamIdle
    /\ band = BandIdle
    /\ http = HttpIdle
    /\ stage = StageIdle
    /\ call = CallIdle
    /\ venv = VenvIdle
    /\ workers = WorkersIdle

NextGrid ==
    \/ \E bbox \in AoiBboxes \cup NonFiniteBboxes, g \in GridSizes, overlap \in Overlaps :
           StartSplit(bbox, g, overlap)
    \/ SplitValidate
    \/ SplitProject
    \/ SplitTile
    \/ SplitExit

SpecGrid == InitGrid /\ [][NextGrid]_vars

(***************************************************************************)
(* Properties of the grid partition                                        *)
(***************************************************************************)
GridDone == grid.phase = "returned"

\* tile of column x and row y of the returned list
Tile(x, y) == grid.tiles[y * grid.grid + x + 1]

Cols == 0..(grid.grid - 1)

\* Rounding of dx (half a unit) accumulated over the tiles of a row.
EdgeTolerance == grid.grid

InteriorsDisjoint(a, b) ==
    a[3] <= b[1] \/ b[3] <= a[1] \/ a[4] <= b[2] \/ b[4] <= a[2]

\* C4: the N x N cores tile the projected AOI bbox: distinct cores have
\* disjoint interiors, neighbours share their boundary coordinate, every core
\* has positive extent, and the outer edges of the grid are the AOI's edges
\* (west and north exactly, east and south up to the rounding of dx and dy).
C4_CoresTileAoi ==
    GridDone =>
        /\ Len(grid.tiles) = grid.grid * grid.grid
        /\ \A i, j \in 1..Len(grid.tiles) :
               i # j => InteriorsDisjoint(grid.tiles[i].bbox_3857, grid.tiles[j].bbox_3857)
        /\ \A x, y \in Cols :
               LET c == Tile(x, y).bbox_3857
               IN  /\ Tile(x, y).x = x /\ Tile(x, y).y = y
                   /\ c[1] < c[3] /\ c[2] < c[4]
                   /\ x + 1 \in Cols => c[3] = Tile(x + 1, y).bbox_3857[1]
                   /\ y + 1 \in Cols => c[2] = Tile(x, y + 1).bbox_3857[4]
                   /\ c[1] = Tile(x, 0).bbox_3857[1] /\ c[3] = Tile(x, 0).bbox_3857[3]
                   /\ c[2] = Tile(0, y).bbox_3857[2] /\ c[4] = Tile(0, y).bbox_3857[4]
                   /\ x = 0 => c[1] = grid.x0
                   /\ y = 0 => c[4] = grid.y1
                   /\ x + 1 = grid.grid => Abs(c[3] - grid.x1) <= EdgeTolerance
                   /\ y + 1 = grid.grid => Abs(c[2] - grid.y0) <= EdgeTolerance

\* The Tashkent AOI split 3 x 3 with overlap 0.1 has been returned.
C4_Witness ==
    /\ GridDone /\ grid.bbox = TashkentBbox /\ grid.grid = 3 /\ grid.overlap = 10
    /\ Len(grid.tiles) = 9

\* width shared by the context boxes of (x, y) and its east neighbour
SharedX(x, y) == Tile(x, y).bbox_overlap_3857[3] - Tile(x + 1, y).bbox_overlap_3857[1]

\* height shared by the context boxes of (x, y) and its south neighbour
SharedY(x, y) == Tile(x, y + 1).bbox_overlap_3857[4] - Tile(x, y).bbox_overlap_3857[2]

TileWidth(x, y) == Tile(x, y).bbox_3857[3] - Tile(x, y).bbox_3857[1]

TileHeight(x, y) == Tile(x, y).bbox_3857[4] - Tile(x, y).bbox_3857[2]

\* C5 (as the code has it): the context boxes of two tiles adjacent along an
\* axis share, on that axis, twice overlap_fraction x tile_size (each box is
\* grown by the margin on its own side of the boundary), up to the rounding
\* of the margin.
C5_SharedContextIsTwiceMargin ==
    GridDone =>
        \A x, y \in Cols :
            /\ x + 1 \in Cols =>
                   Abs(OverlapDen * SharedX(x, y) - 2 * grid.overlap * TileWidth(x, y))
                       <= OverlapDen
            /\ y + 1 \in Cols =>
                   Abs(OverlapDen * SharedY(x, y) - 2 * grid.overlap * TileHeight(x, y))
                       <= OverlapDen

\* Tiles (0,0) and (1,0) of the Tashkent AOI, N = 3, overlap 0.1: their
\* context boxes share a strip of positive width.
C5_Witness ==
    /\ GridDone /\ grid.bbox = TashkentBbox /\ grid.grid = 3 /\ grid.overlap = 10
    /\ SharedX(0, 0) > 0
    /\ SharedX(0, 0) = 2 * grid.ox

\* C5 as stated: the shared width is overlap_fraction x tile_size.
C5_SharedContextIsMargin ==
    GridDone =>
        \A x, y \in Cols :
            /\ x + 1 \in Cols =>
                   Abs(OverlapDen * SharedX(x, y) - grid.overlap * TileWidth(x, y))
                       <= OverlapDen
            /\ y + 1 \in Cols =>
                   Abs(OverlapDen * SharedY(x, y) - grid.overlap * TileHeight(x, y))
                       <= OverlapDen

(***************************************************************************)
(* Seam repair: seamInpaintTiles (iso-seam-inpaint.mjs) runs               *)
(* py/seam_inpaint_tiles.py as one child process and registers its report. *)
(* The child's own steps follow the orchestrator of the specification      *)
(* (sections 4.4, 5 and 9): units are taken in enumeration order, seams    *)
(* before intersections, each tile buffer grants one write permit at a     *)
(* time.                                                                   *)
(***************************************************************************)
MaxWorkers == 2         \* units the orchestrator keeps in flight at once

SeamGrids == {2, 3}     \* grid sizes of the layers a pass is run on

Terminal == {"Written", "Skipped", "Failed"}

PendingUnit == [st |-> "Pending", stage |-> "none"]

\* Seams between horizontally adjacent tiles (x, y) and (x + 1, y).
HSeams(n) ==
    [k \in 1..(n * (n - 1)) |->
        [kind |-> "h", x |-> (k - 1) % (n - 1), y |-> (k - 1) \div (n - 1)]]

\* Seams between vertically adjacent tiles (x, y) and (x, y + 1).
VSeams(n) ==
    [k \in 1..(n * (n - 1)) |-> [kind |-> "v", x |-> (k - 1) % n, y |-> (k - 1) \div n]]

\* Four-tile corners between (x, y), (x + 1, y), (x, y + 1), (x + 1, y + 1).
Intersections(n) ==
    [k \in 1..((n - 1) * (n - 1)) |->
        [kind |-> "i", x |-> (k - 1) % (n - 1), y |-> (k - 1) \div (n - 1)]]

\* The enumeration of a pass: every seam, then every intersection.
UnitSeq(n) == HSeams(n) \o VSeams(n) \o Intersections(n)

\* The tile buffers a unit writes back into.
Targets(u) ==
    CASE u.kind = "h" -> {<<u.x, u.y>>, <<u.x + 1, u.y>>}
      [] u.kind = "v" -> {<<u.x, u.y>>, <<u.x, u.y + 1>>}
      [] u.kind = "i" -> {<<u.x, u.y>>, <<u.x + 1, u.y>>,
                          <<u.x, u.y + 1>>, <<u.x + 1, u.y + 1>>}

\* The units of the pass in progress, as enumerated.
Units == seam.units

UnitIds == 1..Len(seam.unit)

\* The four seams that meet at intersection k.
Confluent(k) ==
    {s \in UnitIds : Units[s].kind # "i" /\ Targets(Units[s]) \subseteq Targets(Units[k])}

CountOf(st) == Cardinality({k \in UnitIds : seam.unit[k].st = st})

\* Seams that got past the skip decision.
Admitted ==
    Cardinality({k \in UnitIds :
        /\ Units[k].kind # "i"
        /\ \/ seam.unit[k].st \in {"Written", "Failed"}
           \/ seam.unit[k].stage \in {"call", "ready", "write"}})

NoReport == [total |-> 0, processed |-> 0, skipped |-> 0, failed |-> 0]

SeamCall ==
    [phase |-> "idle", overlap |-> 0, maxSeams |-> 0, n |-> 0, ceiling |-> 0,
     units |-> <<>>, unit |-> <<>>, report |-> NoReport, err |-> ""]

\* seamInpaintTiles up to the spawn of the child: the out layer must differ
\* from the input layer; the overlap comes from tilejson.json when in range.
StartSeamPass(sameLayer, ov, maxSeams) ==
    /\ seam.phase = "idle"
    /\ proc[Pipeline].pc = "idle"
    /\ seam' = IF sameLayer
               THEN [SeamCall EXCEPT !.phase = "threw", !.err = "out_layer"]
               ELSE [SeamCall EXCEPT !.phase = "spawned",
                                     !.overlap = IF ov >= 0 /\ ov < OverlapLimit THEN ov ELSE 0,
                                     !.maxSeams = maxSeams]
    /\ UNCHANGED <<manifestFile, files, proc, committed, grid, band, http, stage, call, venv, workers>>

\* The child loads the n x n layer and enumerates its units.
Enumerate(n, ceiling) ==
    /\ seam.phase = "spawned"
    /\ seam' = [seam EXCEPT !.phase = "python", !.n = n, !.ceiling = ceiling,
                            !.units = UnitSeq(n),
                            !.unit = [k \in 1..Len(UnitSeq(n)) |-> PendingUnit]]
    /\ UNCHANGED <<manifestFile, files, proc, committed, grid, band, http, stage, call, venv, workers>>

\* The context window is degenerate when the overlap is 0; a seam beyond the
\* max_seams cap is left out as well.  Otherwise the collaborator is called.
FirstStage(k) ==
    LET capped == /\ Units[k].kind # "i"
                  /\ seam.maxSeams > 0
                  /\ Admitted >= seam.maxSeams
    IN  IF seam.overlap = 0 \/ capped THEN "skip" ELSE "call"

\* Dispatch that does not wait for the seams of an intersection.
DispatchAnyOrder(k) ==
    /\ seam.phase = "python"
    /\ seam.unit[k].st = "Pending"
    /\ \A j \in 1..(k - 1) : seam.unit[j].st # "Pending"
    /\ CountOf("Processing") < MaxWorkers
    /\ CountOf("Failed") <= seam.ceiling
    /\ seam' = [seam EXCEPT !.unit[k] = [st |-> "Processing", stage |-> FirstStage(k)]]
    /\ UNCHANGED <<manifestFile, files, proc, committed, grid, band, http, stage, call, venv, workers>>

\* The next pending unit is taken up; an intersection only after its four
\* seams have reached a terminal state.
Dispatch(k) ==
    /\ seam.phase = "python"
    /\ seam.unit[k].st = "Pending"
    /\ \A j \in 1..(k - 1) : seam.unit[j].st # "Pending"
    /\ CountOf("Processing") < MaxWorkers
    /\ CountOf("Failed") <= seam.ceiling
    /\ Units[k].kind = "i" => \A s \in Confluent(k) : seam.unit[s].st \in Terminal
    /\ seam' = [seam EXCEPT !.unit[k] = [st |-> "Processing", stage |-> FirstStage(k)]]
    /\ UNCHANGED <<manifestFile, files, proc, committed, grid, band, http, stage, call, venv, workers>>

\* A unit whose context window is degenerate, or that the cap leaves out, is
\* recorded as skipped.
SkipUnit(k) ==
    /\ seam.phase = "python"
    /\ seam.unit[k].stage = "skip"
    /\ seam' = [seam EXCEPT !.unit[k] = [st |-> "Skipped", stage |-> "none"]]
    /\ UNCHANGED <<manifestFile, files, proc, committed, grid, band, http, stage, call, venv, workers>>

\* A failed regeneration that puts the unit back in the queue.
RegenerateRequeue(k, ok) ==
    /\ seam.phase = "python"
    /\ seam.unit[k].stage = "call"
    /\ seam' = IF ok
               THEN [seam EXCEPT !.unit[k].stage = "ready"]
               ELSE [seam EXCEPT !.unit[k] = PendingUnit]
    /\ UNCHANGED <<manifestFile, files, proc, committed, grid, band, http, stage, call, venv, workers>>

\* The regeneration collaborator answers: pixels, or a failure that is recorded.
Regenerate(k, ok) ==
    /\ seam.phase = "python"
    /\ seam.unit[k].stage = "call"
    /\ seam' = IF ok
               THEN [seam EXCEPT !.unit[k].stage = "ready"]
               ELSE [seam EXCEPT !.unit[k] = [st |-> "Failed", stage |-> "none"]]
    /\ UNCHANGED <<manifestFile, files, proc, committed, grid, band, http, stage, call, venv, workers>>

\* A write-back that starts without the permits of its tiles.
BeginWriteNoPermit(k) ==
    /\ seam.phase = "python"
    /\ seam.unit[k].stage = "ready"
    /\ seam' = [seam EXCEPT !.unit[k].stage = "write"]
    /\ UNCHANGED <<manifestFile, files, proc, committed, grid, band, http, stage, call, venv, workers>>

\* The write-back starts once every tile it targets is free of writers.
BeginWrite(k) ==
    /\ seam.phase = "python"
    /\ seam.unit[k].stage = "ready"
    /\ \A j \in UnitIds :
           seam.unit[j].stage = "write" => Targets(Units[j]) \cap Targets(Units[k]) = {}
    /\ seam' = [seam EXCEPT !.unit[k].stage = "write"]
    /\ UNCHANGED <<manifestFile, files, proc, committed, grid, band, http, stage, call, venv, workers>>

\* The write-back band is in the tile buffers.
EndWrite(k) ==
    /\ seam.phase = "python"
    /\ seam.unit[k].stage = "write"
    /\ seam' = [seam EXCEPT !.unit[k] = [st |-> "Written", stage |-> "none"]]
    /\ UNCHANGED <<manifestFile, files, proc, committed, grid, band, http, stage, call, venv, workers>>

\* A child that gives up at the first failed unit, whatever the ceiling.
TooManyFailedSeamsAtFirst ==
    /\ seam.phase = "python"
    /\ CountOf("Failed") >= 1
    /\ CountOf("Processing") = 0
    /\ seam' = [seam EXCEPT !.phase = "exited1"]
    /\ UNCHANGED <<manifestFile, files, proc, committed, grid, band, http, stage, call, venv, workers>>

\* TooManyFailedSeams: the child gives up with a non-zero status.
TooManyFailedSeams ==
    /\ seam.phase = "python"
    /\ CountOf("Failed") > seam.ceiling
    /\ CountOf("Processing") = 0
    /\ seam' = [seam EXCEPT !.phase = "exited1"]
    /\ UNCHANGED <<manifestFile, files, proc, committed, grid, band, http, stage, call, venv, workers>>

\* Every unit is settled: the child writes the report and exits with status 0.
WriteReport ==
    /\ seam.phase = "python"
    /\ CountOf("Failed") <= seam.ceiling
    /\ \A k \in UnitIds : seam.unit[k].st \in Terminal
    /\ seam' = [seam EXCEPT !.phase = "exited0",
                            !.report = [total |-> Len(seam.unit),
                                        processed |-> CountOf("Written"),
                                        skipped |-> CountOf("Skipped"),
                                        failed |-> CountOf("Failed")]]
    /\ files' = [files EXCEPT ![SeamReportFile] = 1]
    /\ UNCHANGED <<manifestFile, proc, committed, grid, band, http, stage, call, venv, workers>>

\* run(): spawnSync returns when the child has exited; a non-zero status throws.
run ==
    /\ seam.phase \in {"exited0", "exited1"}
    /\ seam' = IF seam.phase = "exited0"
               THEN [seam EXCEPT !.phase = "check"]
               ELSE [seam EXCEPT !.phase = "threw", !.err = "command_failed"]
    /\ UNCHANGED <<manifestFile, files, proc, committed, grid, band, http, stage, call, venv, workers>>

\* The report is read; no processed seam is an error; otherwise the report is
\* handed to addFilesToManifest.
SeamReportCheck ==
    /\ seam.phase = "check"
    /\ IF files[SeamReportFile] = 0
       THEN /\ seam' = [seam EXCEPT !.phase = "threw", !.err = "missing_report"]
            /\ UNCHANGED proc
       ELSE IF seam.report.processed <= 0
       THEN /\ seam' = [seam EXCEPT !.phase = "threw", !.err = "smoke_check"]
            /\ UNCHANGED proc
       ELSE /\ seam' = [seam EXCEPT !.phase = "register"]
            /\ proc' = [proc EXCEPT ![Pipeline] =
                            [IdleProc EXCEPT !.pc = "add_exists", !.op = "add",
                                             !.absPaths = <<SeamReportFile>>]]
    /\ UNCHANGED <<manifestFile, files, committed, grid, band, http, stage, call, venv, workers>>

\* addFilesToManifest has ended: seamInpaintTiles returns, or passes its error on.
SeamReturn ==
    /\ seam.phase = "register"
    /\ proc[Pipeline].pc \in {"returned", "threw"}
    /\ seam' = IF proc[Pipeline].pc = "returned"
               THEN [seam EXCEPT !.phase = "returned"]
               ELSE [seam EXCEPT !.phase = "threw", !.err = proc[Pipeline].err]
    /\ proc' = [proc EXCEPT ![Pipeline] = IdleProc]
    /\ UNCHANGED <<manifestFile, files, committed, grid, band, http, stage, call, venv, workers>>

\* The caller has the result; the out layer of the next pass starts empty.
SeamExit ==
    /\ seam.phase \in {"returned", "threw"}
    /\ seam' = SeamCall
    /\ files' = [files EXCEPT ![SeamReportFile] = 0]
    /\ UNCHANGED <<manifestFile, proc, committed, grid, band, http, stage, call, venv, workers>>

InitSeam ==
    /\ manifestFile = [exists |-> TRUE, bytes |-> JsonStringify(FreshManifest(1, AOI_CATALOG["tashkent"]))]
    /\ committed = manifestFile
    /\ files = [p \in AllFiles |-> 0]
    /\ proc = [s \in Stages |-> IdleProc]
    /\ grid = GridIdle
    /\ seam = SeamCall
    /\ band = BandIdle
    /\ http = HttpIdle
    /\ stage = StageIdle
    /\ call = CallIdle
    /\ venv = VenvIdle
    /\ workers = WorkersIdle

NextSeam ==
    \/ \E sameLayer \in BOOLEAN, ov \in {0, 10, OverlapLimit}, maxSeams \in {0, 2} :
           StartSeamPass(sameLayer, ov, maxSeams)
    \/ \E n \in SeamGrids, ceiling \in {0, 1} : Enumerate(n, ceiling)
    \/ \E k \in UnitIds :
        \/ Dispatch(k)
        \/ SkipUnit(k)
        \/ \E ok \in BOOLEAN : Regenerate(k, ok)
        \/ BeginWrite(k)
        \/ EndWrite(k)
    \/ TooManyFailedSeams
    \/ WriteReport
    \/ run
    \/ SeamReportCheck
    \/ AddExists(Pipeline)
    \/ AddRead(Pipeline)
    \/ AddStat(Pipeline)
    \/ AddHash(Pipeline)
    \/ AddUpsert(Pipeline)
    \/ WriteOpen(Pipeline)
    \/ WriteData(Pipeline)
    \/ SeamReturn
    \/ SeamExit

SpecSeam == InitSeam /\ [][NextSeam]_vars

(***************************************************************************)
(* Properties of the seam-repair pass                                      *)
(***************************************************************************)
Writing(k) == seam.unit[k].stage = "write"

\* C8: each tile buffer has at most one writer at a time: no two write-backs
\* that are in progress together target a common tile.
C8_OneWriterPerTile ==
    \A j, k \in UnitIds :
        (j # k /\ Writing(j) /\ Writing(k)) =>
            Targets(Units[j]) \cap Targets(Units[k]) = {}

\* A regenerated unit waits while another unit writes into one of its tiles.
C8_Witness ==
    \E j, k \in UnitIds :
        /\ Writing(j)
        /\ seam.unit[k].stage = "ready"
        /\ Targets(Units[j]) \cap Targets(Units[k]) # {}

UnitStepOk(a, b) ==
    \/ a.st = b.st
    \/ a.st = "Pending" /\ b.st = "Processing"
    \/ a.st = "Processing" /\ b.st \in Terminal

\* The child has exited with status 0 in this step.
PassEnds == seam.phase = "python" /\ seam'.phase = "exited0"

CountOfNext(st) == Cardinality({k \in 1..Len(seam'.unit) : seam'.unit[k].st = st})

BetweenUnits ==
    /\ seam.phase = "python"
    /\ CountOf("Processing") = 0
    /\ CountOf("Pending") > 0

\* C11: a failed unit is recorded and counted, and while the failures are
\* within the ceiling the orchestrator takes up the next unit; the pass ends
\* with TooManyFailedSeams exactly when the failures exceed the ceiling: it never
\* gives up at or below the ceiling and never reports success above it.
C11_FailedSeamIsRecorded ==
    /\ (BetweenUnits /\ CountOf("Failed") <= seam.ceiling) =>
           /\ \E k \in UnitIds : ENABLED Dispatch(k)
           /\ ~ENABLED TooManyFailedSeams
    /\ (seam.phase = "python" /\ CountOf("Processing") = 0
            /\ CountOf("Failed") > seam.ceiling) =>
           /\ ENABLED TooManyFailedSeams
           /\ ~ENABLED WriteReport
    /\ seam.phase = "exited1" => CountOf("Failed") > seam.ceiling
    /\ (seam.phase = "threw" /\ seam.err = "command_failed") =>
           CountOf("Failed") > seam.ceiling
    /\ seam.phase = "exited0" =>
           /\ CountOf("Failed") <= seam.ceiling
           /\ seam.report.failed = CountOf("Failed")

\* A pass ran to its end although a unit failed: a unit after the failed one
\* was written.
C11_Witness ==
    /\ seam.phase = "exited0"
    /\ seam.report.failed >= 1
    /\ \E j, k \in UnitIds :
           j < k /\ seam.unit[j].st = "Failed" /\ seam.unit[k].st = "Written"

\* C12: a skipped unit is not fatal: a pass in which units were skipped and
\* none failed does not end in an error, and the report counts every skipped
\* unit.
C12_SkippedNotFatal ==
    /\ seam.phase \in {"exited0", "check", "register", "returned"} =>
           seam.report.skipped = CountOf("Skipped")
    /\ (CountOf("Skipped") > 0 /\ CountOf("Failed") = 0) => seam.phase # "threw"

\* The artifacts array the call of stage s read, and the one it produced.
ArtifactsRead(s) == JsonParse(proc[s].readBytes).doc.artifacts

ArtifactsUpserted(s) == proc[s].manifest.artifacts

InBatch(s, path) == \E j \in 1..Len(proc[s].artifacts) : proc[s].artifacts[j].path = path

\* C20: upsertArtifacts keeps every entry the ledger had at its array position:
\* an entry whose path is upserted holds the new sha256 and size at the same
\* position, every other entry is untouched, and the array keeps its length
\* when every upserted path was already there.
C20_ReplacedInPlace ==
    \A s \in Stages :
        (proc[s].op = "add" /\ proc[s].pc \in {"write_open", "write_data", "returned"}) =>
            /\ Len(ArtifactsUpserted(s)) >= Len(ArtifactsRead(s))
            /\ \A i \in 1..Len(ArtifactsRead(s)) :
                   /\ ArtifactsUpserted(s)[i].path = ArtifactsRead(s)[i].path
                   /\ InBatch(s, ArtifactsRead(s)[i].path) =>
                          Holds(proc[s].artifacts, ArtifactsUpserted(s)[i])
                   /\ ~InBatch(s, ArtifactsRead(s)[i].path) =>
                          ArtifactsUpserted(s)[i] = ArtifactsRead(s)[i]
            /\ (\A j \in 1..Len(proc[s].artifacts) :
                    \E i \in 1..Len(ArtifactsRead(s)) :
                        ArtifactsRead(s)[i].path = proc[s].artifacts[j].path) =>
                   Len(ArtifactsUpserted(s)) = Len(ArtifactsRead(s))
            /\ proc[s].pc = "returned" =>
                   DiskDoc.ok /\ DiskDoc.doc.artifacts = ArtifactsUpserted(s)

\* a.json, first of two entries, was upserted again after its content had
\* changed: the first entry has the new sha256, the second is as it was.
C20_Witness ==
    \E s \in Stages :
        /\ proc[s].op = "add" /\ proc[s].pc = "returned"
        /\ Len(ArtifactsRead(s)) = 2
        /\ ArtifactsRead(s)[1].path = "a.json"
        /\ ArtifactsRead(s)[2].path = RawOsm
        /\ DiskDoc.doc.artifacts[1].sha256 # ArtifactsRead(s)[1].sha256
        /\ DiskDoc.doc.artifacts[1].size # ArtifactsRead(s)[1].size

(***************************************************************************)
(* One seam's write-back, on one pixel row that crosses the seam.  The     *)
(* left tile's last 2 * margin columns show the same ground as the right   *)
(* tile's first 2 * margin columns; the seam line runs through the middle  *)
(* of that strip (specification section 4.4).                              *)
(***************************************************************************)
TileWidthPx == 6        \* pixel columns of a tile row

Margins == 0..2         \* context margin of a tile, in pixel columns

SeamContexts == 0..3    \* --seam_context; 0 takes the geometric overlap

WriteHalves == 0..3     \* --write_half

OldPixels == {0, 1}     \* pixel values of the input layer

NewPixels == {2, 3}     \* pixel values the collaborator returns

PixelRows == {[i \in 1..TileWidthPx |-> 0], [i \in 1..TileWidthPx |-> i % 2]}

\* Half-width of the context window: the configured context, bounded by the
\* overlap the tiles really have on each side of the seam line.
ContextHalf(margin, seamContext) ==
    IF seamContext = 0 THEN margin ELSE Min(seamContext, margin)

\* Half-width of the write-back band: inside the context window.
BandHalf(ctx, writeHalf) == Min(writeHalf, ctx)

\* Column of the left tile just left of the seam line.
SeamLeft(margin) == TileWidthPx - margin

\* Column of the right tile just left of the seam line.
SeamRight(margin) == margin

\* Columns of the context window and of the write-back band, counted from the
\* column left of the seam line at column `line` of a tile.
WindowCols(line, ctx) == (line - ctx + 1)..(line + ctx)

BandCols(line, wh) == (line - wh + 1)..(line + wh)

\* Patches for a window of half-width ctx: one pixel per window column.
Patches(ctx) == [1..(2 * ctx) -> NewPixels]

\* The patch pixel for column c of a tile whose seam line is at `line`.
PatchAt(patch, line, ctx, c) == patch[c - (line - ctx)]

BandCall ==
    [phase |-> "idle", left |-> <<>>, right |-> <<>>, left0 |-> <<>>, right0 |-> <<>>,
     margin |-> 0, seamContext |-> 0, writeHalf |-> 0, ctx |-> 0, patch |-> <<>>]

\* The two neighbour tiles of the seam are loaded into their buffers.
LoadTiles(l, r, margin, seamContext, writeHalf) ==
    /\ band.phase \in {"idle", "Written", "Skipped", "Failed"}
    /\ band' = [BandCall EXCEPT !.phase = "Pending", !.left = l, !.right = r,
                                !.left0 = l, !.right0 = r, !.margin = margin,
                                !.seamContext = seamContext, !.writeHalf = writeHalf]
    /\ UNCHANGED <<manifestFile, files, proc, committed, grid, seam, http, stage, call, venv, workers>>

\* The context window is derived; a window of zero width skips the seam.
DeriveWindow ==
    /\ band.phase = "Pending"
    /\ LET ctx == ContextHalf(band.margin, band.seamContext)
       IN  band' = [band EXCEPT !.ctx = ctx,
                                !.phase = IF ctx = 0 THEN "Skipped" ELSE "call"]
    /\ UNCHANGED <<manifestFile, files, proc, committed, grid, seam, http, stage, call, venv, workers>>

\* The collaborator returns pixels for the window, or a failure.
RegenerateBand(patch, ok) ==
    /\ band.phase = "call"
    /\ band' = IF ok
               THEN [band EXCEPT !.phase = "ready", !.patch = patch]
               ELSE [band EXCEPT !.phase = "Failed"]
    /\ UNCHANGED <<manifestFile, files, proc, committed, grid, seam, http, stage, call, venv, workers>>

\* The patch pixels of `cols` are put into a tile row whose seam line is at `line`.
Paste(row, line, cols) ==
    [c \in 1..TileWidthPx |->
        IF c \in cols THEN PatchAt(band.patch, line, band.ctx, c) ELSE row[c]]

\* A write-back that pastes the whole context window into the left tile.
WriteBackLeftWholeWindow ==
    /\ band.phase = "ready"
    /\ band' = [band EXCEPT !.phase = "write",
                            !.left = Paste(band.left, SeamLeft(band.margin),
                                           WindowCols(SeamLeft(band.margin), band.ctx))]
    /\ UNCHANGED <<manifestFile, files, proc, committed, grid, seam, http, stage, call, venv, workers>>

\* The inner write_half columns on each side of the seam line go into the
\* left tile's buffer.
WriteBackLeft ==
    /\ band.phase = "ready"
    /\ band' = [band EXCEPT !.phase = "write",
                            !.left = Paste(band.left, SeamLeft(band.margin),
                                           BandCols(SeamLeft(band.margin),
                                                    BandHalf(band.ctx, band.writeHalf)))]
    /\ UNCHANGED <<manifestFile, files, proc, committed, grid, seam, http, stage, call, venv, workers>>

\* The same columns of the patch go into the right tile's buffer.
WriteBackRight ==
    /\ band.phase = "write"
    /\ band' = [band EXCEPT !.phase = "Written",
                            !.right = Paste(band.right, SeamRight(band.margin),
                                            BandCols(SeamRight(band.margin),
                                                     BandHalf(band.ctx, band.writeHalf)))]
    /\ UNCHANGED <<manifestFile, files, proc, committed, grid, seam, http, stage, call, venv, workers>>

InitBand ==
    /\ manifestFile = [exists |-> FALSE, bytes |-> <<>>]
    /\ committed = manifestFile
    /\ files = [p \in AllFiles |-> 0]
    /\ proc = [s \in Stages |-> IdleProc]
    /\ grid = GridIdle
    /\ seam = SeamIdle
    /\ band = BandCall
    /\ http = HttpIdle
    /\ stage = StageIdle
    /\ call = CallIdle
    /\ venv = VenvIdle
    /\ workers = WorkersIdle

NextBand ==
    \/ \E l, r \in PixelRows, margin \in Margins, seamContext \in SeamContexts,
          writeHalf \in WriteHalves : LoadTiles(l, r, margin, seamContext, writeHalf)
    \/ DeriveWindow
    \/ \E ok \in BOOLEAN : \E patch \in (IF ok THEN Patches(band.ctx) ELSE {<<>>}) :
           RegenerateBand(patch, ok)
    \/ WriteBackLeft
    \/ WriteBackRight

SpecBand == InitBand /\ [][NextBand]_vars

\* The repair of the seam has begun.
BandLoaded == band.phase # "idle"

\* Columns of the write-back band in the left and in the right tile.
BandLeftCols ==
    BandCols(SeamLeft(band.margin), BandHalf(band.ctx, band.writeHalf))

BandRightCols ==
    BandCols(SeamRight(band.margin), BandHalf(band.ctx, band.writeHalf))

\* C13: during and after the repair of a seam, every pixel of the two
\* neighbour tiles outside the seam's write-back band has the value it had
\* before the repair; a skipped or failed seam leaves both tiles as they were.
C13_OutsideBandUntouched ==
    BandLoaded =>
        /\ \A c \in 1..TileWidthPx :
               /\ c \notin BandLeftCols => band.left[c] = band.left0[c]
               /\ c \notin BandRightCols => band.right[c] = band.right0[c]
        /\ band.phase \in {"Skipped", "Failed"} =>
               band.left = band.left0 /\ band.right = band.right0

\* A seam was written whose context window is wider than the band: pixels
\* inside the band changed in both tiles, and the collaborator had returned
\* pixels for window columns outside the band.
C13_Witness ==
    /\ band.phase = "Written"
    /\ band.ctx > BandHalf(band.ctx, band.writeHalf)
    /\ BandHalf(band.ctx, band.writeHalf) > 0
    /\ \A c \in BandLeftCols : band.left[c] # band.left0[c]
    /\ \A c \in BandRightCols : band.right[c] # band.right0[c]

(***************************************************************************)
(* One logical generation call to the image service:                       *)
(* generateImageWithPrompt -> postJsonWithRetries -> postJsonOnce          *)
(* (gemini-image-batch.mjs).  Time is counted in ticks of the attempt in   *)
(* progress.                                                               *)
(***************************************************************************)
MaxRetry == 2           \* largest retry_max a call is made with

TimeoutTicks == 2       \* timeout_ms of one attempt, in clock ticks

Backends == {"gemini", "vertex"}

\* HTTP statuses the service answers with.
Statuses == {200, 400, 401, 429, 503}

NoError == [name |-> "none", status |-> 0, token |-> FALSE]

\* The errors postJsonOnce throws: the abort of the fetch, or an HTTP status of
\* 400 and above whose message is 'HTTP <status>: <text>'; `token` says whether
\* the message holds one of the substrings isRetryableError looks for.
AbortError == [name |-> "AbortError", status |-> 0, token |-> FALSE]

HttpError(status, textToken) ==
    [name |-> "Error", status |-> status,
     token |-> textToken \/ status \in {429, 503}]

isRetryableError(err) ==
    \/ err.name = "AbortError"
    \/ err.status = 429 \/ err.status >= 500
    \/ err.token

RECURSIVE Pow2(_)
Pow2(n) == IF n = 0 THEN 1 ELSE 2 * Pow2(n - 1)

computeBackoffMs(attempt, baseMs, maxMs, jitter) ==
    Min(Max(0, baseMs) * Pow2(attempt), Max(Max(0, baseMs), maxMs)) + jitter

HttpCall ==
    [phase |-> "idle", backend |-> "gemini", retryMax |-> 0, retryBaseMs |-> 0,
     retryMaxMs |-> 0, loop |-> 0, attempt |-> 0, attempts |-> 0, made |-> 0, elapsed |-> 0,
     slept |-> FALSE, delay |-> 0, err |-> NoError]

\* generateImageWithPrompt up to its first postJsonWithRetries.
generateImageWithPrompt(backend, retryMax, retryBaseMs, retryMaxMs) ==
    /\ http.phase = "idle"
    /\ http' = [HttpCall EXCEPT !.phase = "post", !.backend = backend,
                                !.retryMax = retryMax, !.retryBaseMs = retryBaseMs,
                                !.retryMaxMs = retryMaxMs, !.loop = 1]
    /\ UNCHANGED <<manifestFile, files, proc, committed, grid, seam, band, stage, call, venv, workers>>

\* postJsonOnce: the abort timer is armed and the request is sent.
postJsonOnce ==
    /\ http.phase = "post"
    /\ http' = [http EXCEPT !.phase = "fetch", !.elapsed = 0,
                            !.attempts = @ + 1, !.made = @ + 1]
    /\ UNCHANGED <<manifestFile, files, proc, committed, grid, seam, band, stage, call, venv, workers>>

\* Time passes while the request is pending.
Tick ==
    /\ http.phase = "fetch"
    /\ http.elapsed < TimeoutTicks
    /\ http' = [http EXCEPT !.elapsed = @ + 1]
    /\ UNCHANGED <<manifestFile, files, proc, committed, grid, seam, band, stage, call, venv, workers>>

\* The timer fires: controller.abort() rejects the fetch with an AbortError.
Abort ==
    /\ http.phase = "fetch"
    /\ http.elapsed = TimeoutTicks
    /\ http' = [http EXCEPT !.phase = "caught", !.err = AbortError]
    /\ UNCHANGED <<manifestFile, files, proc, committed, grid, seam, band, stage, call, venv, workers>>

\* The service answers before the timer fires: a status below 400 returns the
\* body, any other status throws.
Respond(status, textToken) ==
    /\ http.phase = "fetch"
    /\ http.elapsed < TimeoutTicks
    /\ http' = IF status >= 400
               THEN [http EXCEPT !.phase = "caught", !.err = HttpError(status, textToken)]
               ELSE [http EXCEPT !.phase = "returned", !.err = NoError]
    /\ UNCHANGED <<manifestFile, files, proc, committed, grid, seam, band, stage, call, venv, workers>>

\* A catch block that lets one attempt more through than retryMax allows.
postJsonWithRetriesOffByOne(jitter) ==
    /\ http.phase = "caught"
    /\ http' = IF http.attempt > http.retryMax \/ ~isRetryableError(http.err)
               THEN [http EXCEPT !.phase = "thrown"]
               ELSE [http EXCEPT !.phase = "sleep",
                                 !.delay = computeBackoffMs(http.attempt, http.retryBaseMs,
                                                            http.retryMaxMs, jitter)]
    /\ UNCHANGED <<manifestFile, files, proc, committed, grid, seam, band, stage, call, venv, workers>>

\* The catch block of postJsonWithRetries: rethrow, or compute the backoff.
postJsonWithRetries(jitter) ==
    /\ http.phase = "caught"
    /\ http' = IF http.attempt >= http.retryMax \/ ~isRetryableError(http.err)
               THEN [http EXCEPT !.phase = "thrown"]
               ELSE [http EXCEPT !.phase = "sleep",
                                 !.delay = computeBackoffMs(http.attempt, http.retryBaseMs,
                                                            http.retryMaxMs, jitter)]
    /\ UNCHANGED <<manifestFile, files, proc, committed, grid, seam, band, stage, call, venv, workers>>

\* await sleep(delay); attempt += 1; the loop goes round.
sleep ==
    /\ http.phase = "sleep"
    /\ http' = [http EXCEPT !.phase = "post", !.attempt = @ + 1, !.slept = TRUE]
    /\ UNCHANGED <<manifestFile, files, proc, committed, grid, seam, band, stage, call, venv, workers>>

\* The catch block of generateImageWithPrompt: on the vertex backend a 401 of
\* the first postJsonWithRetries refreshes the token and calls it once more.
RefreshAndRetry ==
    /\ http.phase = "thrown"
    /\ http' = IF http.loop = 1 /\ http.backend = "vertex" /\ http.err.status = 401
               THEN [http EXCEPT !.phase = "post", !.loop = 2, !.attempt = 0,
                                 !.made = 0, !.slept = FALSE]
               ELSE [http EXCEPT !.phase = "failed"]
    /\ UNCHANGED <<manifestFile, files, proc, committed, grid, seam, band, stage, call, venv, workers>>

\* The caller has the images or the error.
HttpExit ==
    /\ http.phase \in {"returned", "failed"}
    /\ http' = HttpCall
    /\ UNCHANGED <<manifestFile, files, proc, committed, grid, seam, band, stage, call, venv, workers>>

InitHttp ==
    /\ manifestFile = [exists |-> FALSE, bytes |-> <<>>]
    /\ committed = manifestFile
    /\ files = [p \in AllFiles |-> 0]
    /\ proc = [s \in Stages |-> IdleProc]
    /\ grid = GridIdle
    /\ seam = SeamIdle
    /\ band = BandIdle
    /\ http = HttpCall
    /\ stage = StageIdle
    /\ call = CallIdle
    /\ venv = VenvIdle
    /\ workers = WorkersIdle

NextHttp ==
    \/ \E backend \in Backends, retryMax \in 0..MaxRetry, retryBaseMs \in {0, 1},
          retryMaxMs \in {0, 3} :
           generateImageWithPrompt(backend, retryMax, retryBaseMs, retryMaxMs)
    \/ postJsonOnce
    \/ Tick
    \/ Abort
    \/ \E status \in Statuses, textToken \in BOOLEAN : Respond(status, textToken)
    \/ \E jitter \in {0, 1} : postJsonWithRetries(jitter)
    \/ sleep
    \/ RefreshAndRetry
    \/ HttpExit

SpecHttp == InitHttp /\ [][NextHttp]_vars

\* Every attempt is over when its timeout has elapsed.
AttemptTimedOut ==
    http.phase = "fetch" =>
        /\ http.elapsed <= TimeoutTicks
        /\ http.elapsed = TimeoutTicks => (ENABLED Abort /\ ~ENABLED Tick)

\* Within one postJsonWithRetries every attempt but the first follows a backoff
\* wait of the computed delay.
BackoffBetweenAttempts ==
    (http.phase = "fetch" /\ http.made > 1) =>
        /\ http.slept
        /\ http.delay >= computeBackoffMs(http.attempt - 1, http.retryBaseMs,
                                          http.retryMaxMs, 0)

\* The original statement: one logical generation call makes at most
\* retry_max + 1 attempts.
C15_AtMostRetryMaxPlusOne ==
    /\ AttemptTimedOut
    /\ http.phase # "idle" => http.attempts <= http.retryMax + 1

\* C15: each HTTP attempt is aborted once the timeout has elapsed; one
\* postJsonWithRetries makes at most retry_max + 1 attempts, each but the first
\* after a backoff wait; one logical generation call runs postJsonWithRetries
\* once, or twice when the vertex backend answered 401 and the token was
\* refreshed, so it makes at most 2 * (retry_max + 1) attempts, and at most
\* retry_max + 1 on the gemini backend.
C15_BoundedAttempts ==
    /\ AttemptTimedOut
    /\ BackoffBetweenAttempts
    /\ http.phase # "idle" =>
           /\ http.made <= http.retryMax + 1
           /\ http.made <= http.attempt + 1
           /\ http.loop \in {1, 2}
           /\ http.attempts <= http.loop * (http.retryMax + 1)
           /\ http.loop = 2 => http.backend = "vertex"

\* A vertex call used every attempt of both retry loops.
C15_Witness ==
    /\ http.phase = "failed"
    /\ http.retryMax >= 1
    /\ http.attempts = 2 * (http.retryMax + 1)

(***************************************************************************)
(* Layers of a tiles directory: seamInpaintTiles (iso-seam-inpaint.mjs)    *)
(* and globalTiledDiffusionTiles read the layer <tiles_dir>/<layer> and    *)
(* write the layer <tiles_dir>/<out_layer>.  A layer directory is absent   *)
(* (0), empty (1) or holds a set of tiles (2 and above).                   *)
(***************************************************************************)
Absent == 0

EmptyDir == 1

TileSets == {2, 3}

\* Values of --layer and --out_layer.
LayerArgs == {"sd", "nolayer", "bad/name"}

OutLayerArgs == {"", "sd", "sd_out", ".", "bad/name"}

\* /^[a-zA-Z0-9._-]+$/ on the names above and on their default out layers.
SafeLayerName(name) ==
    name \notin {"", "bad/name", "bad/name_seam", "bad/name_global"}

\* The layer directories under the tiles directory.
LayerDirs == {"sd", "sd_out", "sd_seam", "sd_global", "nolayer"}

\* path.join(baseAbs, name): '.' is the tiles directory itself.
JoinBase(name) == IF name = "." THEN "base" ELSE name

\* fs.rm(target, { recursive: true, force: true })
RemoveDir(dirs, target) ==
    IF target = "base" THEN [d \in LayerDirs |-> Absent]
    ELSE [dirs EXCEPT ![target] = Absent]

\* fs.mkdir(target, { recursive: true })
MakeDir(dirs, target) ==
    IF target = "base" \/ dirs[target] # Absent THEN dirs
    ELSE [dirs EXCEPT ![target] = EmptyDir]

\* fileExists(path.join(baseAbs, layer))
LayerExists(dirs, layer) == layer \in LayerDirs /\ dirs[layer] # Absent

\* The checks both functions make before they touch the out layer; "" when
\* the call is accepted.
LayerError(dirs, layer, outLayerName) ==
    IF ~SafeLayerName(layer) THEN "invalid_layer"
    ELSE IF ~LayerExists(dirs, layer) THEN "missing_layer"
    ELSE IF ~SafeLayerName(outLayerName) THEN "invalid_out_layer"
    ELSE IF outLayerName = layer THEN "same_layer"
    ELSE ""

LayerCall(dirs) ==
    [phase |-> "idle", kind |-> "none", layer |-> "", outLayerName |-> "", err |-> "",
     dirs |-> dirs, before |-> dirs]

\* seamInpaintTiles up to the spawn of the child: the out layer is created.
seamInpaintTiles(layer, outLayer) ==
    /\ stage.phase = "idle"
    /\ LET outLayerName == IF outLayer # "" THEN outLayer ELSE layer \o "_seam"
           err == LayerError(stage.dirs, layer, outLayerName)
       IN  stage' = IF err # ""
                    THEN [stage EXCEPT !.phase = "threw", !.kind = "seam", !.layer = layer,
                                       !.outLayerName = outLayerName, !.err = err,
                                       !.before = stage.dirs]
                    ELSE [stage EXCEPT !.phase = "child", !.kind = "seam", !.layer = layer,
                                       !.outLayerName = outLayerName, !.err = "",
                                       !.before = stage.dirs,
                                       !.dirs = MakeDir(stage.dirs, JoinBase(outLayerName))]
    /\ UNCHANGED <<manifestFile, files, proc, committed, grid, seam, band, http, call, venv, workers>>

\* globalTiledDiffusionTiles up to the spawn of the child: the out layer is
\* removed and created again.
globalTiledDiffusionTiles(layer, outLayer) ==
    /\ stage.phase = "idle"
    /\ LET outLayerName == IF outLayer # "" THEN outLayer ELSE layer \o "_global"
           err == LayerError(stage.dirs, layer, outLayerName)
       IN  stage' = IF err # ""
                    THEN [stage EXCEPT !.phase = "threw", !.kind = "global", !.layer = layer,
                                       !.outLayerName = outLayerName, !.err = err,
                                       !.before = stage.dirs]
                    ELSE [stage EXCEPT !.phase = "child", !.kind = "global", !.layer = layer,
                                       !.outLayerName = outLayerName, !.err = "",
                                       !.before = stage.dirs,
                                       !.dirs = MakeDir(RemoveDir(stage.dirs, JoinBase(outLayerName)),
                                                        JoinBase(outLayerName))]
    /\ UNCHANGED <<manifestFile, files, proc, committed, grid, seam, band, http, call, venv, workers>>

\* The child reads the tiles of --in_dir and writes tiles under --out_dir only;
\* it exits with status 0, or with a non-zero status that run() throws on.
LayerChild(ok, tiles) ==
    /\ stage.phase = "child"
    /\ stage' = IF ~LayerExists(stage.dirs, stage.layer)
                THEN [stage EXCEPT !.phase = "threw", !.err = "command_failed"]
                ELSE [stage EXCEPT
                        !.phase = IF ok THEN "returned" ELSE "threw",
                        !.err = IF ok THEN "" ELSE "command_failed",
                        !.dirs = IF JoinBase(stage.outLayerName) = "base" THEN @
                                 ELSE [@ EXCEPT ![stage.outLayerName] = tiles]]
    /\ UNCHANGED <<manifestFile, files, proc, committed, grid, seam, band, http, call, venv, workers>>

\* The caller has the result.
LayerReturn ==
    /\ stage.phase \in {"returned", "threw"}
    /\ stage' = LayerCall(stage.dirs)
    /\ UNCHANGED <<manifestFile, files, proc, committed, grid, seam, band, http, call, venv, workers>>

InitLayers ==
    /\ manifestFile = [exists |-> FALSE, bytes |-> <<>>]
    /\ committed = manifestFile
    /\ files = [p \in AllFiles |-> 0]
    /\ proc = [s \in Stages |-> IdleProc]
    /\ grid = GridIdle
    /\ seam = SeamIdle
    /\ band = BandIdle
    /\ http = HttpIdle
    /\ call = CallIdle
    /\ venv = VenvIdle
    /\ workers = WorkersIdle
    /\ \E tiles \in TileSets :
           stage = LayerCall([d \in LayerDirs |-> IF d = "sd" THEN tiles ELSE Absent])

NextLayers ==
    \/ \E layer \in LayerArgs, outLayer \in OutLayerArgs : seamInpaintTiles(layer, outLayer)
    \/ \E layer \in LayerArgs, outLayer \in OutLayerArgs :
           globalTiledDiffusionTiles(layer, outLayer)
    \/ \E ok \in BOOLEAN, tiles \in TileSets : LayerChild(ok, tiles)
    \/ LayerReturn

SpecLayers == InitLayers /\ [][NextLayers]_vars

\* The call got past its checks.
LayerAccepted ==
    \/ stage.phase \in {"child", "returned"}
    \/ stage.phase = "threw" /\ stage.err = "command_failed"

\* C14: an accepted call writes to an out layer whose name differs from the
\* input layer's, and from the start of a call to its end, successful or not,
\* the input layer holds the tiles it held when the call began.
C14_InputLayerUnchanged ==
    /\ LayerAccepted => stage.outLayerName # stage.layer
    /\ (stage.phase # "idle" /\ stage.layer \in LayerDirs) =>
           stage.dirs[stage.layer] = stage.before[stage.layer]

(***************************************************************************)
(* Stages that register what they wrote: renderIsoWhitebox,                *)
(* buildIsoMosaic (iso-tile-mosaic.mjs), generateImageBatch                *)
(* (gemini-image-batch.mjs), and runIsoWhiteboxSeamSmoke, which calls the  *)
(* first two in turn.  The Python children write the files their           *)
(* arguments name.                                                         *)
(***************************************************************************)
MaxPrompts == 2         \* longest prompts file of a batch

\* Layer names of the smoke pipeline, and the --layer values of direct calls.
rawLayer == "raw_whitebox"

MosaicLayerArgs == {"sd", rawLayer, "nolayer"}

MosaicDirs == {"raw", "sd", "pixel", rawLayer, "nolayer"}

ModeArgs == {"crop", "blend", "stretch"}

StageCall(dirs) ==
    [phase |-> "idle", kind |-> "none", layer |-> "", err |-> "", smoke |-> "off",
     wrote |-> {}, items |-> <<>>, prompts |-> 0, tileCount |-> 0, dirs |-> dirs]

StageThrow(st, kind, e) == [st EXCEPT !.phase = "threw", !.kind = kind, !.err = e]

\* The call of addFilesToManifest a stage ends with.
Register(paths) ==
    [proc EXCEPT ![Pipeline] =
        [IdleProc EXCEPT !.pc = "add_exists", !.op = "add", !.absPaths = paths]]

\* renderIsoWhitebox up to the spawn of iso_whitebox.py: the manifest must
\* parse and hold the AOI, the buildings parquet must exist.
RenderStart(st, hasParquet) ==
    IF ~manifestFile.exists THEN StageThrow(st, "render", "enoent")
    ELSE IF ~JsonParse(manifestFile.bytes).ok THEN StageThrow(st, "render", "syntax")
    ELSE IF ~HasKey(JsonParse(manifestFile.bytes).doc, "aoi")
    THEN StageThrow(st, "render", "missing_aoi")
    ELSE IF ~hasParquet THEN StageThrow(st, "render", "missing_parquet")
    ELSE [st EXCEPT !.phase = "child", !.kind = "render", !.err = "", !.wrote = {}]

renderIsoWhitebox(hasParquet) ==
    /\ stage.phase = "idle"
    /\ proc[Pipeline].pc = "idle"
    /\ stage' = RenderStart(stage, hasParquet)
    /\ UNCHANGED <<manifestFile, files, proc, committed, grid, seam, band, http, call, venv, workers>>

\* iso_whitebox.py renders tileCount tiles, writes tilejson.json and the
\* report and exits with status 0, or fails with a non-zero status.
RenderChild(ok, tileCount, withTilejson) ==
    /\ stage.phase = "child" /\ stage.kind = "render"
    /\ IF ok
       THEN /\ files' = [p \in AllFiles |->
                            IF p = RenderReport THEN 1
                            ELSE IF p = TileJson /\ withTilejson THEN 1
                            ELSE IF p = TileImage /\ tileCount > 0 THEN 1
                            ELSE files[p]]
            /\ stage' = [stage EXCEPT
                            !.phase = "check", !.tileCount = tileCount,
                            !.wrote = {RenderReport}
                                        \cup (IF withTilejson THEN {TileJson} ELSE {})
                                        \cup (IF tileCount > 0 THEN {TileImage} ELSE {})]
       ELSE /\ stage' = StageThrow(stage, "render", "command_failed")
            /\ UNCHANGED files
    /\ UNCHANGED <<manifestFile, proc, committed, grid, seam, band, http, call, venv, workers>>

\* The report must count a tile, tilejson.json must exist; the two metadata
\* files are registered.
RenderCheck ==
    /\ stage.phase = "check" /\ stage.kind = "render"
    /\ IF stage.tileCount <= 0
       THEN stage' = StageThrow(stage, "render", "smoke_check") /\ UNCHANGED proc
       ELSE IF files[TileJson] = 0
       THEN stage' = StageThrow(stage, "render", "missing_tilejson") /\ UNCHANGED proc
       ELSE /\ stage' = [stage EXCEPT !.phase = "register"]
            /\ proc' = Register(<<TileJson, RenderReport>>)
    /\ UNCHANGED <<manifestFile, files, committed, grid, seam, band, http, call, venv, workers>>

\* The checks of buildIsoMosaic before the child is spawned.
MosaicError(dirs, layer, mode) ==
    IF layer \notin {"raw", "sd", "pixel"} THEN "invalid_layer"
    ELSE IF mode \notin {"crop", "blend"} THEN "invalid_mode"
    ELSE IF dirs[layer] = Absent THEN "missing_tiles_dir"
    ELSE ""

MosaicStart(st, layer, mode) ==
    IF MosaicError(st.dirs, layer, mode) # ""
    THEN [StageThrow(st, "mosaic", MosaicError(st.dirs, layer, mode)) EXCEPT
            !.layer = layer, !.wrote = {}]
    ELSE [st EXCEPT !.phase = "child", !.kind = "mosaic", !.layer = layer, !.err = "",
                    !.wrote = {}]

buildIsoMosaic(layer, mode) ==
    /\ stage.phase = "idle"
    /\ proc[Pipeline].pc = "idle"
    /\ stage' = MosaicStart(stage, layer, mode)
    /\ UNCHANGED <<manifestFile, files, proc, committed, grid, seam, band, http, call, venv, workers>>

\* tile_mosaic.py writes the composited image and its report and exits with
\* status 0, or fails with a non-zero status.
MosaicChild(ok, c, withReport) ==
    /\ stage.phase = "child" /\ stage.kind = "mosaic"
    /\ IF ok
       THEN /\ files' = [p \in AllFiles |->
                            IF p = MosaicOut(stage.layer) THEN c
                            ELSE IF p = MosaicOut(stage.layer) \o ".json" /\ withReport THEN c
                            ELSE files[p]]
            /\ stage' = [stage EXCEPT
                            !.phase = "check",
                            !.wrote = {MosaicOut(stage.layer)}
                                        \cup (IF withReport
                                              THEN {MosaicOut(stage.layer) \o ".json"}
                                              ELSE {})]
       ELSE /\ stage' = StageThrow(stage, "mosaic", "command_failed")
            /\ UNCHANGED files
    /\ UNCHANGED <<manifestFile, proc, committed, grid, seam, band, http, call, venv, workers>>

\* A check that registers the image without its report.
MosaicCheckImageOnly ==
    /\ stage.phase = "check" /\ stage.kind = "mosaic"
    /\ IF files[MosaicOut(stage.layer)] = 0
       THEN stage' = StageThrow(stage, "mosaic", "missing_output") /\ UNCHANGED proc
       ELSE IF files[MosaicOut(stage.layer) \o ".json"] = 0
       THEN stage' = StageThrow(stage, "mosaic", "missing_report") /\ UNCHANGED proc
       ELSE /\ stage' = [stage EXCEPT !.phase = "register"]
            /\ proc' = Register(<<MosaicOut(stage.layer)>>)
    /\ UNCHANGED <<manifestFile, files, committed, grid, seam, band, http, call, venv, workers>>

\* Output and report must exist; both are registered.
MosaicCheck ==
    /\ stage.phase = "check" /\ stage.kind = "mosaic"
    /\ IF files[MosaicOut(stage.layer)] = 0
       THEN stage' = StageThrow(stage, "mosaic", "missing_output") /\ UNCHANGED proc
       ELSE IF files[MosaicOut(stage.layer) \o ".json"] = 0
       THEN stage' = StageThrow(stage, "mosaic", "missing_report") /\ UNCHANGED proc
       ELSE /\ stage' = [stage EXCEPT !.phase = "register"]
            /\ proc' = Register(<<MosaicOut(stage.layer), MosaicOut(stage.layer) \o ".json">>)
    /\ UNCHANGED <<manifestFile, files, committed, grid, seam, band, http, call, venv, workers>>

\* generateImageBatch up to the start of its workers.
generateImageBatch(prompts) ==
    /\ stage.phase = "idle"
    /\ proc[Pipeline].pc = "idle"
    /\ stage' = IF ~manifestFile.exists THEN StageThrow(stage, "batch", "missing_manifest")
                ELSE IF prompts = 0 THEN StageThrow(stage, "batch", "no_prompts")
                ELSE [stage EXCEPT !.phase = "workers", !.kind = "batch", !.err = "",
                                   !.wrote = {}, !.items = <<>>, !.prompts = prompts]
    /\ UNCHANGED <<manifestFile, files, proc, committed, grid, seam, band, http, call, venv, workers>>

\* A worker settles the next prompt: an image is written and the item is ok,
\* or every candidate failed and the item records the error.
BatchWorker(ok) ==
    /\ stage.phase = "workers"
    /\ Len(stage.items) < stage.prompts
    /\ stage' = [stage EXCEPT !.items = Append(@, IF ok THEN "ok" ELSE "error"),
                              !.wrote = IF ok THEN @ \cup {BatchImage} ELSE @]
    /\ files' = IF ok THEN [files EXCEPT ![BatchImage] = 1] ELSE files
    /\ UNCHANGED <<manifestFile, proc, committed, grid, seam, band, http, call, venv, workers>>

okCount == Cardinality({i \in 1..Len(stage.items) : stage.items[i] = "ok"})

\* Promise.all has resolved: the report is written and registered.
BatchWriteReport ==
    /\ stage.phase = "workers"
    /\ Len(stage.items) = stage.prompts
    /\ files' = [files EXCEPT ![BatchReport] = 1]
    /\ stage' = [stage EXCEPT !.phase = "register", !.wrote = @ \cup {BatchReport}]
    /\ proc' = Register(<<BatchReport>>)
    /\ UNCHANGED <<manifestFile, committed, grid, seam, band, http, call, venv, workers>>

\* addFilesToManifest has ended: the stage passes its error on, or returns; a
\* batch without an ok item throws after its report is registered.
StageReturn ==
    /\ stage.phase = "register"
    /\ proc[Pipeline].pc \in {"returned", "threw"}
    /\ stage' = IF proc[Pipeline].pc = "threw"
                THEN StageThrow(stage, stage.kind, proc[Pipeline].err)
                ELSE IF stage.kind = "batch" /\ okCount <= 0
                THEN StageThrow(stage, "batch", "all_failed")
                ELSE [stage EXCEPT !.phase = "returned"]
    /\ proc' = [proc EXCEPT ![Pipeline] = IdleProc]
    /\ UNCHANGED <<manifestFile, files, committed, grid, seam, band, http, call, venv, workers>>

\* runIsoWhiteboxSeamSmoke: the pipeline starts with the render.
runIsoWhiteboxSeamSmoke(hasParquet) ==
    /\ stage.phase = "idle"
    /\ proc[Pipeline].pc = "idle"
    /\ stage' = [RenderStart(stage, hasParquet) EXCEPT !.smoke = "render"]
    /\ UNCHANGED <<manifestFile, files, proc, committed, grid, seam, band, http, call, venv, workers>>

\* The render has ended.  An error ends the pipeline; otherwise the layers of
\* an earlier run are removed, the rendered tiles are copied to the raw layer
\* and the mosaic of the raw layer is asked for.
SmokeAfterRender ==
    /\ stage.smoke = "render"
    /\ stage.phase \in {"returned", "threw"}
    /\ stage' = IF stage.phase = "threw"
                THEN [stage EXCEPT !.smoke = "threw"]
                ELSE [MosaicStart([stage EXCEPT !.dirs[rawLayer] = 2], rawLayer, "crop")
                        EXCEPT !.smoke = "mosaic"]
    /\ UNCHANGED <<manifestFile, files, proc, committed, grid, seam, band, http, call, venv, workers>>

\* The mosaic of the raw layer has ended.  An error ends the pipeline; the
\* stylize, seam and pixel stages and the quality report come after a mosaic
\* that returned.
SmokeAfterMosaic ==
    /\ stage.smoke = "mosaic"
    /\ stage.phase \in {"returned", "threw"}
    /\ stage' = IF stage.phase = "threw"
                THEN [stage EXCEPT !.smoke = "threw"]
                ELSE [stage EXCEPT !.smoke = "stylize"]
    /\ UNCHANGED <<manifestFile, files, proc, committed, grid, seam, band, http, call, venv, workers>>

\* The caller has the result of the stage, or the error of the pipeline.
StageExit ==
    /\ stage.phase \in {"returned", "threw"}
    /\ stage.smoke \in {"off", "threw"}
    /\ stage' = StageCall(stage.dirs)
    /\ UNCHANGED <<manifestFile, files, proc, committed, grid, seam, band, http, call, venv, workers>>

InitStages ==
    /\ manifestFile \in {[exists |-> TRUE, bytes |-> JsonStringify(FreshManifest(1, AOI_CATALOG["tashkent"]))],
                         [exists |-> TRUE, bytes |-> JsonStringify(LegacyManifest)]}
    /\ committed = manifestFile
    /\ files = [p \in AllFiles |-> 0]
    /\ proc = [s \in Stages |-> IdleProc]
    /\ grid = GridIdle
    /\ seam = SeamIdle
    /\ band = BandIdle
    /\ http = HttpIdle
    /\ stage = StageCall([d \in MosaicDirs |-> IF d = "sd" THEN 2 ELSE Absent])
    /\ call = CallIdle
    /\ venv = VenvIdle
    /\ workers = WorkersIdle

NextStages ==
    \/ \E hasParquet \in BOOLEAN : renderIsoWhitebox(hasParquet)
    \/ \E ok \in BOOLEAN, tileCount \in {0, 1}, withTilejson \in BOOLEAN :
           RenderChild(ok, tileCount, withTilejson)
    \/ RenderCheck
    \/ \E layer \in MosaicLayerArgs, mode \in ModeArgs : buildIsoMosaic(layer, mode)
    \/ \E ok \in BOOLEAN, c \in Contents, withReport \in BOOLEAN : MosaicChild(ok, c, withReport)
    \/ MosaicCheck
    \/ \E prompts \in 0..MaxPrompts : generateImageBatch(prompts)
    \/ \E ok \in BOOLEAN : BatchWorker(ok)
    \/ BatchWriteReport
    \/ AddExists(Pipeline)
    \/ AddRead(Pipeline)
    \/ AddStat(Pipeline)
    \/ AddHash(Pipeline)
    \/ AddUpsert(Pipeline)
    \/ WriteOpen(Pipeline)
    \/ WriteData(Pipeline)
    \/ StageReturn
    \/ \E hasParquet \in BOOLEAN : runIsoWhiteboxSeamSmoke(hasParquet)
    \/ SmokeAfterRender
    \/ SmokeAfterMosaic
    \/ StageExit

SpecStages == InitStages /\ [][NextStages]_vars

(***************************************************************************)
(* Properties of the stages                                                *)
(***************************************************************************)
\* The ledger on disk has an entry for file p with the sha256 and the size of
\* the file as it is on disk.
LedgerEntry(p) ==
    /\ files[p] # 0
    /\ DiskDoc.ok
    /\ \E i \in 1..Len(DiskDoc.doc.artifacts) :
           DiskDoc.doc.artifacts[i] =
               [path |-> p, sha256 |-> sha256File(files[p]), size |-> statSize(files[p])]

MosaicReturned == stage.kind = "mosaic" /\ stage.phase = "returned"

\* C16: when buildIsoMosaic has returned, the ledger on disk has an entry for
\* the composited image and one for its report, each with the sha256 and size
\* of the file on disk.
C16_MosaicRegistered ==
    MosaicReturned =>
        /\ LedgerEntry(MosaicOut(stage.layer))
        /\ LedgerEntry(MosaicOut(stage.layer) \o ".json")

\* A mosaic returned on a run whose ledger already held the render's entries;
\* the image has the second content.
C16_Witness ==
    /\ MosaicReturned
    /\ stage.layer = "sd"
    /\ files[MosaicImage] = 2
    /\ LedgerEntry(TileJson)
    /\ Len(DiskDoc.doc.artifacts) = 4

\* C17: a mosaic request that names a layer whose directory exists is not
\* rejected as an invalid layer.
C17_MosaicAcceptsProducedLayer ==
    (stage.kind = "mosaic" /\ stage.phase = "threw" /\ stage.err = "invalid_layer") =>
        stage.dirs[stage.layer] = Absent

\* C18: when a stage has returned, every file it wrote under the run
\* directory has an entry in the ledger on disk.
C18_EveryWrittenFileRegistered ==
    stage.phase = "returned" => \A p \in stage.wrote : LedgerEntry(p)

\* Errors a stage throws before it has started any work.
BeforeWork == {"enoent", "syntax", "missing_aoi", "missing_parquet", "missing_manifest",
               "no_prompts"}

\* C19: a stage that has started its work ends with its report on disk: the
\* batch its report.json, the smoke pipeline its quality report, also when
\* units or stages failed.
C19_EveryStageEndsWithReport ==
    /\ (stage.kind = "batch" /\ stage.phase \in {"returned", "threw"}
            /\ stage.err \notin BeforeWork) =>
           files[BatchReport] # 0
    /\ (stage.smoke = "threw" /\ stage.err \notin BeforeWork) =>
           files[QualityReport] # 0

(***************************************************************************)
(* buildArtifact while another stage rewrites the file (artifacts.mjs)     *)
(*                                                                         *)
(* Stage s1 registers a.json with addFilesToManifest; stage s2, a second   *)
(* process of the same run, rewrites a.json at any moment.                 *)
(***************************************************************************)
InitRewrite ==
    /\ manifestFile = [exists |-> TRUE, bytes |-> JsonStringify(FreshManifest(1, AOI_CATALOG["tashkent"]))]
    /\ committed = manifestFile
    /\ files \in {[p \in AllFiles |-> IF p \in RunFiles THEN r[p] ELSE 0] :
                    r \in [RunFiles -> 0..NumContents]}
    /\ proc = [s \in Stages |-> IdleProc]
    /\ grid = GridIdle
    /\ seam = SeamIdle
    /\ band = BandIdle
    /\ http = HttpIdle
    /\ stage = StageIdle
    /\ call = CallIdle
    /\ venv = VenvIdle
    /\ workers = WorkersIdle

NextRewrite ==
    \/ \E b \in Batches : StartAddFiles("s1", b)
    \/ \E c \in Contents : ProduceFile("s2", "a.json", c)
    \/ AddExists("s1")
    \/ AddRead("s1")
    \/ AddStat("s1")
    \/ AddHash("s1")
    \/ AddUpsert("s1")
    \/ WriteOpen("s1")
    \/ WriteData("s1")
    \/ Exit("s1")

SpecRewrite == InitRewrite /\ [][NextRewrite]_vars

\* The artifact describes one content: its digest and its size are those of
\* the same bytes.
OneContent(a) ==
    \E c \in Contents : a.sha256 = sha256File(c) /\ a.size = statSize(c)

\* C21: every entry an upsert writes to the ledger carries a sha256 and a size
\* of one and the same content of the file, also when another stage rewrites
\* the file while the entry is built.
C21_EntryDescribesOneContent ==
    \A s \in Stages :
        (proc[s].op = "add" /\ proc[s].pc = "returned") =>
            /\ DiskDoc.ok
            /\ \A i \in 1..Len(DiskDoc.doc.artifacts) : OneContent(DiskDoc.doc.artifacts[i])

(***************************************************************************)
(* The run's AOI (init-data-release.mjs, aoi-catalog.mjs)                  *)
(***************************************************************************)
\* aoi.bbox of a completely written manifest.
BboxOf(f) == JsonParse(f.bytes).doc.aoi.bbox

\* C22: once a manifest of the run has been written, every later manifest
\* written for the run (by an artifact upsert, by fetchOsm or by a repeated
\* init) has the same AOI bbox, and so has the file whenever it parses.
C22_BboxImmutable ==
    /\ [](committed.exists /\ DiskDoc.ok => DiskDoc.doc.aoi.bbox = BboxOf(committed))
    /\ [][committed.exists =>
            /\ committed'.exists
            /\ Len(BboxOf(committed')) = 4
            /\ BboxOf(committed') = BboxOf(committed)]_vars

\* A forced init has overwritten a manifest that held artifacts.
C22_Witness ==
    \E s \in Stages :
        /\ proc[s].op = "init" /\ proc[s].force /\ proc[s].pc = "returned"
        /\ JsonParse(proc[s].readBytes).ok
        /\ Len(JsonParse(proc[s].readBytes).doc.artifacts) > 0
        /\ DiskDoc.ok /\ DiskDoc.doc.artifacts = <<>>

(***************************************************************************)
(* Failures of the grid partitioner (tile-grid.mjs, mercator.mjs)          *)
(***************************************************************************)
\* The grid size is no integer in 1..64.
BadGrid(g) == ~(g \in 1..GridLimit)

\* The overlap is no finite number in [0, 0.49).
BadOverlap(o) == ~(o \in 0..(OverlapLimit - 1))

FiniteBbox(bbox) == \A i \in 1..4 : bbox[i] \notin {NaN, Infinity, NegInfinity}

\* The projected box has no positive width or no positive height.
NonPositiveSize(bbox) ==
    /\ FiniteBbox(bbox)
    /\ \/ MercatorX[bbox[3]] <= MercatorX[bbox[1]]
       \/ MercatorY[Min(MAX_LAT, bbox[4])] <= MercatorY[Min(MAX_LAT, bbox[2])]

\* The call has failed and hands no tile to its caller.
SplitFailed == grid.phase = "threw" /\ grid.tiles = <<>>

\* The call builds or has returned a non-empty list of tiles.
SplitSucceeds ==
    \/ grid.phase = "loop"
    \/ grid.phase = "returned" /\ grid.tiles # <<>>

SplitDecided == grid.phase \in {"loop", "returned", "threw"}

MantissaBits == 5

RECURSIVE BitLength(_)
BitLength(n) == IF n = 0 THEN 0 ELSE 1 + BitLength(n \div 2)

\* a rounded to a multiple of q, to the nearest one, ties to the even multiple.
RoundTo(a, q) ==
    LET lo == a \div q
        rem == a % q
    IN  IF 2 * rem > q \/ (2 * rem = q /\ lo % 2 = 1) THEN (lo + 1) * q ELSE lo * q

\* The floating-point number nearest to n, ties to the even significand.
fl(n) ==
    LET k == BitLength(Abs(n)) - MantissaBits
    IN  IF k <= 0 THEN n
        ELSE IF n < 0 THEN 0 - RoundTo(Abs(n), Pow2(k))
        ELSE RoundTo(Abs(n), Pow2(k))

\* scale is given in quarters: 4 is the scale 1.
ScaleDen == 4
Scales == {0, 1, 2, 3, 4, 5, NaN}

\* Well-formed boxes [w, s, e, n] whose coordinates are floating-point numbers.
ScaleBboxes ==
    {<<320, 160, 432, 208>>,
     <<160, 320, 208, 432>>,
     <<-64, -32, 64, 96>>,
     <<16, 16, 48, 80>>}

\* --bbox_center_lon / --bbox_center_lat: NaN stands for null (no center).
Centers == {NaN, -512, 32, 336, 432, 512}

clamp(v, lo, hi) == Min(hi, Max(lo, v))

ScaleThrow(e) == [ok |-> FALSE, err |-> e, box |-> <<>>]

\* scaleBboxWgs84(bbox, scale)
scaleBboxWgs84(bbox, scale) ==
    IF ~isFinite(scale) \/ Le(scale, 0) \/ Lt(ScaleDen, scale)
    THEN ScaleThrow("Invalid scale")
    ELSE LET cx == fl(bbox[1] + bbox[3]) \div 2
             cy == fl(bbox[2] + bbox[4]) \div 2
             halfW == fl((fl(bbox[3] - bbox[1]) * scale) \div ScaleDen) \div 2
             halfH == fl((fl(bbox[4] - bbox[2]) * scale) \div ScaleDen) \div 2
         IN  [ok |-> TRUE, err |-> "",
              box |-> <<fl(cx - halfW), fl(cy - halfH), fl(cx + halfW), fl(cy + halfH)>>]

\* The center of one axis: the one given, or the middle of the box, clamped.
AxisCenter(lo, hi, center) ==
    clamp(IF isFinite(center) THEN center ELSE fl(lo + hi) \div 2, lo, hi)

\* The window of width out around the center c.
AxisWindow(c, out) == <<fl(c - out \div 2), fl(c + out \div 2)>>

\* A window that starts below lo is shifted up to start at lo ...
ShiftUp(w, lo) == IF w[1] < lo THEN <<lo, fl(w[2] + fl(lo - w[1]))>> ELSE w

\* ... and one that ends above hi is shifted down to end at hi.
ShiftDown(w, hi) == IF w[2] > hi THEN <<fl(w[1] - fl(w[2] - hi)), hi>> ELSE w

ClampWindow(w, lo, hi) == <<clamp(w[1], lo, hi), clamp(w[2], lo, hi)>>

\* One axis of scaleBboxAroundCenter: the window of the scaled width around
\* the clamped center, shifted back into [lo, hi] and clamped.
ScaleAxis(lo, hi, scale, center) ==
    ClampWindow(
        ShiftDown(
            ShiftUp(AxisWindow(AxisCenter(lo, hi, center),
                               fl((fl(hi - lo) * scale) \div ScaleDen)),
                    lo),
            hi),
        lo, hi)

\* scaleBboxAroundCenter({ bbox, scale, centerLon, centerLat })
scaleBboxAroundCenter(bbox, scale, centerLon, centerLat) ==
    IF ~isFinite(scale) \/ Le(scale, 0) THEN ScaleThrow("Invalid --bbox_scale")
    ELSE IF scale = ScaleDen THEN [ok |-> TRUE, err |-> "", box |-> bbox]
    ELSE LET lon == ScaleAxis(bbox[1], bbox[3], scale, centerLon)
             lat == ScaleAxis(bbox[2], bbox[4], scale, centerLat)
         IN  IF ~(lon[1] < lon[2] /\ lat[1] < lat[2])
             THEN ScaleThrow("Computed bbox after scaling is invalid")
             ELSE [ok |-> TRUE, err |-> "", box |-> <<lon[1], lat[1], lon[2], lat[2]>>]

ScaleCall ==
    [phase |-> "idle", fn |-> "", bbox |-> <<>>, scale |-> 0, centerLon |-> NaN,
     centerLat |-> NaN, result |-> ScaleThrow("")]

\* A stage calls scaleBboxWgs84 (tiles-split) ...
CallScaleBboxWgs84(bbox, scale) ==
    /\ call.phase = "idle"
    /\ call' = [ScaleCall EXCEPT !.phase = "called", !.fn = "scaleBboxWgs84",
                                 !.bbox = bbox, !.scale = scale]
    /\ UNCHANGED <<manifestFile, files, proc, committed, grid, seam, band, http, stage, venv, workers>>

\* ... or scaleBboxAroundCenter (whitebox render).
CallScaleBboxAroundCenter(bbox, scale, centerLon, centerLat) ==
    /\ call.phase = "idle"
    /\ call' = [ScaleCall EXCEPT !.phase = "called", !.fn = "scaleBboxAroundCenter",
                                 !.bbox = bbox, !.scale = scale,
                                 !.centerLon = centerLon, !.centerLat = centerLat]
    /\ UNCHANGED <<manifestFile, files, proc, committed, grid, seam, band, http, stage, venv, workers>>

\* The function runs to its return or its throw.
ScaleRun ==
    /\ call.phase = "called"
    /\ LET r == IF call.fn = "scaleBboxWgs84" THEN scaleBboxWgs84(call.bbox, call.scale)
                ELSE scaleBboxAroundCenter(call.bbox, call.scale, call.centerLon,
                                           call.centerLat)
       IN  call' = [call EXCEPT !.phase = IF r.ok THEN "returned" ELSE "threw",
                                !.result = r]
    /\ UNCHANGED <<manifestFile, files, proc, committed, grid, seam, band, http, stage, venv, workers>>

ScaleExit ==
    /\ call.phase \in {"returned", "threw"}
    /\ call' = ScaleCall
    /\ UNCHANGED <<manifestFile, files, proc, committed, grid, seam, band, http, stage, venv, workers>>

InitScale ==
    /\ manifestFile = MissingFile
    /\ committed = MissingFile
    /\ files = [p \in AllFiles |-> 0]
    /\ proc = [s \in Stages |-> IdleProc]
    /\ grid = GridIdle
    /\ seam = SeamIdle
    /\ band = BandIdle
    /\ http = HttpIdle
    /\ stage = StageIdle
    /\ call = ScaleCall
    /\ venv = VenvIdle
    /\ workers = WorkersIdle

NextScale ==
    \/ \E bbox \in ScaleBboxes, scale \in Scales : CallScaleBboxWgs84(bbox, scale)
    \/ \E bbox \in ScaleBboxes, scale \in Scales, lon, lat \in Centers :
           CallScaleBboxAroundCenter(bbox, scale, lon, lat)
    \/ ScaleRun
    \/ ScaleExit

SpecScale == InitScale /\ [][NextScale]_vars

\* box a lies within box b
Within(a, b) == b[1] <= a[1] /\ b[2] <= a[2] /\ a[3] <= b[3] /\ a[4] <= b[4]

ScaleInUnitRange == call.scale \in 1..ScaleDen

\* C24: for a well-formed bbox, a scale in (0, 1] and any center, the bbox
\* that a scaling operation returns lies within the original bbox.
C24_ScaledWithinOriginal ==
    (call.phase = "returned" /\ ScaleInUnitRange) => Within(call.result.box, call.bbox)

\* The same for scaleBboxAroundCenter alone.
AroundCenterWithinOriginal ==
    (call.phase = "returned" /\ call.fn = "scaleBboxAroundCenter" /\ ScaleInUnitRange) =>
        Within(call.result.box, call.bbox)

(***************************************************************************)
(* The two conversions of mercator.mjs called on their own                 *)
(***************************************************************************)
\* lon = x / R in degrees and lat = 2 atan(exp(y / R)) - PI / 2 in degrees, at
\* the tabulated points.
LonOfX(x) == CHOOSE lon \in DOMAIN MercatorX : MercatorX[lon] = x
LatOfY(y) == CHOOSE lat \in DOMAIN MercatorY : MercatorY[lat] = y

webMercatorToLonLat(x, y) ==
    IF ~isFinite(x) THEN [ok |-> FALSE, err |-> "Invalid x", lon |-> 0, lat |-> 0]
    ELSE IF ~isFinite(y) THEN [ok |-> FALSE, err |-> "Invalid y", lon |-> 0, lat |-> 0]
    ELSE [ok |-> TRUE, err |-> "", lon |-> LonOfX(x), lat |-> LatOfY(y)]

NonFinite == {NaN, Infinity, NegInfinity}
Longitudes == DOMAIN MercatorX \cup NonFinite
Latitudes == DOMAIN MercatorY \cup {90000} \cup NonFinite
Eastings == {MercatorX[lon] : lon \in DOMAIN MercatorX} \cup NonFinite
Northings == {MercatorY[lat] : lat \in DOMAIN MercatorY} \cup NonFinite

ProjectCall == [phase |-> "idle", fn |-> "", args |-> <<>>, ok |-> FALSE, out |-> <<>>]

CallLonLatToWebMercator(lonDeg, latDeg) ==
    /\ call.phase = "idle"
    /\ call' = [ProjectCall EXCEPT !.phase = "called", !.fn = "lonLatToWebMercator",
                                   !.args = <<lonDeg, latDeg>>]
    /\ UNCHANGED <<manifestFile, files, proc, committed, grid, seam, band, http, stage, venv, workers>>

CallWebMercatorToLonLat(x, y) ==
    /\ call.phase = "idle"
    /\ call' = [ProjectCall EXCEPT !.phase = "called", !.fn = "webMercatorToLonLat",
                                   !.args = <<x, y>>]
    /\ UNCHANGED <<manifestFile, files, proc, committed, grid, seam, band, http, stage, venv, workers>>

\* The conversion returns its coordinate or throws.
ProjectRun ==
    /\ call.phase = "called"
    /\ call' =
         IF call.fn = "lonLatToWebMercator"
         THEN LET r == lonLatToWebMercator(call.args[1], call.args[2])
              IN  [call EXCEPT !.phase = IF r.ok THEN "returned" ELSE "threw",
                               !.ok = r.ok,
                               !.out = IF r.ok THEN <<r.x, r.y>> ELSE <<>>]
         ELSE LET r == webMercatorToLonLat(call.args[1], call.args[2])
              IN  [call EXCEPT !.phase = IF r.ok THEN "returned" ELSE "threw",
                               !.ok = r.ok,
                               !.out = IF r.ok THEN <<r.lon, r.lat>> ELSE <<>>]
    /\ UNCHANGED <<manifestFile, files, proc, committed, grid, seam, band, http, stage, venv, workers>>

ProjectExit ==
    /\ call.phase \in {"returned", "threw"}
    /\ call' = ProjectCall
    /\ UNCHANGED <<manifestFile, files, proc, committed, grid, seam, band, http, stage, venv, workers>>

InitProject ==
    /\ manifestFile = MissingFile
    /\ committed = MissingFile
    /\ files = [p \in AllFiles |-> 0]
    /\ proc = [s \in Stages |-> IdleProc]
    /\ grid = GridIdle
    /\ seam = SeamIdle
    /\ band = BandIdle
    /\ http = HttpIdle
    /\ stage = StageIdle
    /\ call = ProjectCall
    /\ venv = VenvIdle
    /\ workers = WorkersIdle

NextProject ==
    \/ \E lonDeg \in Longitudes, latDeg \in Latitudes : CallLonLatToWebMercator(lonDeg, latDeg)
    \/ \E x \in Eastings, y \in Northings : CallWebMercatorToLonLat(x, y)
    \/ ProjectRun
    \/ ProjectExit

SpecProject == InitProject /\ [][NextProject]_vars

\* C25: a conversion whose longitude or latitude (forward) or x or y
\* (inverse) is NaN or an infinity throws and returns no coordinate.
C25_NonFiniteRejected ==
    (call.phase \in {"returned", "threw"} /\ \E i \in 1..2 : call.args[i] \in NonFinite) =>
        /\ call.phase = "threw"
        /\ call.out = <<>>

\* The forward conversion has thrown on a latitude of Infinity, the inverse
\* one on a y of NaN.
C25_Witness ==
    /\ call.phase = "threw"
    /\ \/ call.fn = "lonLatToWebMercator" /\ call.args = <<69103, Infinity>>
       \/ call.fn = "webMercatorToLonLat" /\ call.args = <<0, NaN>>

(***************************************************************************)
(* Core and context of a tile (tile-grid.mjs)                              *)
(***************************************************************************)
\* C26: for every tile the partitioner has built, the context box contains
\* the core box in Web-Mercator: context min <= core min and core max <=
\* context max on both axes.
C26_ContextContainsCore ==
    \A i \in 1..Len(grid.tiles) :
        LET core == grid.tiles[i].bbox_3857
            ctx == grid.tiles[i].bbox_overlap_3857
        IN  /\ ctx[1] <= core[1] /\ ctx[2] <= core[2]
            /\ core[3] <= ctx[3] /\ core[4] <= ctx[4]

\* A 3 x 3 grid with overlap 0.48 has been returned; the context of its
\* centre tile is larger than the core on every side.
C26_Witness ==
    /\ GridDone /\ grid.grid = 3 /\ grid.overlap = 48
    /\ LET core == Tile(1, 1).bbox_3857
           ctx == Tile(1, 1).bbox_overlap_3857
       IN  ctx[1] < core[1] /\ ctx[2] < core[2] /\ core[3] < ctx[3] /\ core[4] < ctx[4]

(***************************************************************************)
(* ensurePythonVenv and its filesystem lock (python-venv.mjs)              *)
(*                                                                         *)
(* Callers are processes (CLI stages, test files run in parallel) that     *)
(* share packages/data/.venv and the lock file next to it.                 *)
(***************************************************************************)
MaxCallers == 2         \* processes that call ensurePythonVenv at the same time
LockTimeout == 1        \* polls of the lock a caller makes before it gives up

Callers == 1..MaxCallers
NoOwner == 0

\* The body of the try block: the create / pip-install critical section.
CriticalSection == {"check_bin", "create_venv", "requirements", "pip", "marker"}

VenvState(bin, dir, marker) ==
    [phase |-> "on",
     lock |-> NoOwner,          \* the caller whose fs.open created .venv.lock
     pythonBin |-> bin,         \* .venv/bin/python exists
     venvDir |-> dir,           \* .venv exists
     marker |-> marker,         \* .tvv_requirements_sha256 holds the current hash
     pc |-> [c \in Callers |-> "idle"],
     waited |-> [c \in Callers |-> 0],
     failed |-> [c \in Callers |-> FALSE],
     created |-> [c \in Callers |-> FALSE]]

\* ensurePythonVenv(repoRoot) is called: mkdir, then acquireExclusiveLock.
ensurePythonVenv(c) ==
    /\ venv.pc[c] = "idle"
    /\ venv' = [venv EXCEPT !.pc[c] = "open", !.waited[c] = 0, !.failed[c] = FALSE,
                            !.created[c] = FALSE]
    /\ UNCHANGED <<manifestFile, files, proc, committed, grid, seam, band, http, stage, call, workers>>

\* fs.open(lockPath, 'w'): the open without the exclusive flag.
OpenLockNotExclusive(c) ==
    /\ venv.pc[c] = "open"
    /\ venv' = [venv EXCEPT !.lock = c, !.created[c] = TRUE, !.pc[c] = "write_lock"]
    /\ UNCHANGED <<manifestFile, files, proc, committed, grid, seam, band, http, stage, call, workers>>

\* fs.open(lockPath, 'wx'): creates the file, or fails with EEXIST; then the
\* timeout test of the catch block.
OpenLock(c) ==
    /\ venv.pc[c] = "open"
    /\ venv' = IF venv.lock = NoOwner
               THEN [venv EXCEPT !.lock = c, !.created[c] = TRUE, !.pc[c] = "write_lock"]
               ELSE IF venv.waited[c] >= LockTimeout
               THEN [venv EXCEPT !.pc[c] = "threw", !.failed[c] = TRUE]
               ELSE [venv EXCEPT !.pc[c] = "sleep"]
    /\ UNCHANGED <<manifestFile, files, proc, committed, grid, seam, band, http, stage, call, workers>>

\* sleep(100); continue
SleepLock(c) ==
    /\ venv.pc[c] = "sleep"
    /\ venv' = [venv EXCEPT !.pc[c] = "open", !.waited[c] = @ + 1]
    /\ UNCHANGED <<manifestFile, files, proc, committed, grid, seam, band, http, stage, call, workers>>

\* fh.writeFile(pid, date): on success the handle is returned; an error
\* (ENOSPC, EIO) is no EEXIST and is thrown again.
WriteLockFile(c, ok) ==
    /\ venv.pc[c] = "write_lock"
    /\ venv' = IF ok THEN [venv EXCEPT !.pc[c] = "check_bin"]
               ELSE [venv EXCEPT !.pc[c] = "threw", !.failed[c] = TRUE]
    /\ UNCHANGED <<manifestFile, files, proc, committed, grid, seam, band, http, stage, call, workers>>

\* if (!(await fileExists(pythonBin)))
CheckPythonBin(c) ==
    /\ venv.pc[c] = "check_bin"
    /\ venv' = [venv EXCEPT !.pc[c] = IF venv.pythonBin THEN "requirements"
                                      ELSE "create_venv"]
    /\ UNCHANGED <<manifestFile, files, proc, committed, grid, seam, band, http, stage, call, workers>>

\* run('python3', ['-m', 'venv', ...]): a failure throws into the finally.
CreateVenv(c, ok) ==
    /\ venv.pc[c] = "create_venv"
    /\ venv' = IF ok
               THEN [venv EXCEPT !.venvDir = TRUE, !.pythonBin = TRUE, !.marker = FALSE,
                                 !.pc[c] = "requirements"]
               ELSE [venv EXCEPT !.venvDir = TRUE, !.failed[c] = TRUE, !.pc[c] = "release"]
    /\ UNCHANGED <<manifestFile, files, proc, committed, grid, seam, band, http, stage, call, workers>>

\* sha256TextFile(requirementsPath), the marker read and the comparison
ReadRequirements(c, ok) ==
    /\ venv.pc[c] = "requirements"
    /\ venv' = IF ~ok THEN [venv EXCEPT !.failed[c] = TRUE, !.pc[c] = "release"]
               ELSE IF venv.marker THEN [venv EXCEPT !.pc[c] = "release"]
               ELSE [venv EXCEPT !.pc[c] = "pip"]
    /\ UNCHANGED <<manifestFile, files, proc, committed, grid, seam, band, http, stage, call, workers>>

\* the two pip runs
PipInstall(c, ok) ==
    /\ venv.pc[c] = "pip"
    /\ venv' = IF ok THEN [venv EXCEPT !.pc[c] = "marker"]
               ELSE [venv EXCEPT !.failed[c] = TRUE, !.pc[c] = "release"]
    /\ UNCHANGED <<manifestFile, files, proc, committed, grid, seam, band, http, stage, call, workers>>

\* fs.writeFile(markerPath, reqHash)
WriteMarker(c) ==
    /\ venv.pc[c] = "marker"
    /\ venv' = [venv EXCEPT !.marker = TRUE, !.pc[c] = "release"]
    /\ UNCHANGED <<manifestFile, files, proc, committed, grid, seam, band, http, stage, call, workers>>

\* finally: releaseExclusiveLock(lock, lockPath), then the return or the
\* pending throw.
releaseExclusiveLock(c) ==
    /\ venv.pc[c] = "release"
    /\ venv' = [venv EXCEPT !.lock = NoOwner,
                            !.pc[c] = IF venv.failed[c] THEN "threw" ELSE "returned"]
    /\ UNCHANGED <<manifestFile, files, proc, committed, grid, seam, band, http, stage, call, workers>>

\* The caller goes on (runPython spawns its script) and may call again.
VenvExit(c) ==
    /\ venv.pc[c] \in {"returned", "threw"}
    /\ venv' = [venv EXCEPT !.pc[c] = "idle", !.waited[c] = 0, !.failed[c] = FALSE,
                            !.created[c] = FALSE]
    /\ UNCHANGED <<manifestFile, files, proc, committed, grid, seam, band, http, stage, call, workers>>

\* The requirements file is edited between two calls.
EditRequirements ==
    /\ venv.marker
    /\ \A c \in Callers : venv.pc[c] = "idle"
    /\ venv' = [venv EXCEPT !.marker = FALSE]
    /\ UNCHANGED <<manifestFile, files, proc, committed, grid, seam, band, http, stage, call, workers>>

InitVenv ==
    /\ manifestFile = MissingFile
    /\ committed = MissingFile
    /\ files = [p \in AllFiles |-> 0]
    /\ proc = [s \in Stages |-> IdleProc]
    /\ grid = GridIdle
    /\ seam = SeamIdle
    /\ band = BandIdle
    /\ http = HttpIdle
    /\ stage = StageIdle
    /\ call = CallIdle
    /\ venv \in {VenvState(FALSE, FALSE, FALSE), VenvState(FALSE, TRUE, FALSE),
                 VenvState(TRUE, TRUE, FALSE), VenvState(TRUE, TRUE, TRUE)}
    /\ workers = WorkersIdle

NextVenv ==
    \/ EditRequirements
    \/ \E c \in Callers :
        \/ ensurePythonVenv(c)
        \/ OpenLock(c)
        \/ SleepLock(c)
        \/ \E ok \in BOOLEAN : WriteLockFile(c, ok)
        \/ CheckPythonBin(c)
        \/ \E ok \in BOOLEAN : CreateVenv(c, ok)
        \/ \E ok \in BOOLEAN : ReadRequirements(c, ok)
        \/ \E ok \in BOOLEAN : PipInstall(c, ok)
        \/ WriteMarker(c)
        \/ releaseExclusiveLock(c)
        \/ VenvExit(c)

SpecVenv == InitVenv /\ [][NextVenv]_vars

InCriticalSection == {c \in Callers : venv.pc[c] \in CriticalSection}

\* C27: whatever the number of concurrent callers of ensurePythonVenv and
\* the interleaving of their steps, at most one of them is inside the
\* create / pip-install critical section.
C27_OneCallerInCriticalSection == Cardinality(InCriticalSection) <= 1

\* One caller runs pip while another one, which found the lock file, sleeps.
C27_Witness ==
    \E c, d \in Callers :
        /\ c # d
        /\ venv.pc[c] = "pip"
        /\ venv.pc[d] = "sleep"

\* C29: when a call of ensurePythonVenv that created the lock file has
\* returned or thrown, the lock file it created is gone, on every path.
C29_LockRemovedAtEnd ==
    \A c \in Callers :
        (venv.pc[c] \in {"returned", "threw"} /\ venv.created[c]) => venv.lock # c

(***************************************************************************)
(* The workers of generateImageBatch (gemini-image-batch.mjs): up to       *)
(* `concurrency` async functions share the cursor and the items array on   *)
(* one event loop.  A worker runs without interruption from one await to   *)
(* the next, so reading and advancing the cursor is one step, and the      *)
(* generation of a prompt (which awaits the service and the disk) is       *)
(* another.                                                                *)
(***************************************************************************)
MaxConcurrency == 3     \* largest --concurrency of a batch run

PromptCounts == 1..(MaxPrompts + 1)
Concurrencies == 1..MaxConcurrency

workerCount(concurrency, prompts) == Max(1, Min(concurrency, prompts))

WorkerIds == 1..workerCount(workers.concurrency, workers.prompts)
PromptIndexes == 0..(workers.prompts - 1)

\* The prompts are read, items and cursor are set up, the workers start.
StartWorkers(prompts, concurrency) ==
    /\ workers.phase = "off"
    /\ workers' = [phase |-> "run", prompts |-> prompts, concurrency |-> concurrency,
                   cursor |-> 0,
                   pc |-> [w \in 1..workerCount(concurrency, prompts) |-> "take"],
                   index |-> [w \in 1..workerCount(concurrency, prompts) |-> 0],
                   items |-> [i \in 0..(prompts - 1) |-> "undefined"],
                   takenBy |-> [i \in 0..(prompts - 1) |-> <<>>],
                   settled |-> [i \in 0..(prompts - 1) |-> 0],
                   report |-> [prompt_count |-> 0, ok_count |-> 0, error_count |-> 0]]
    /\ UNCHANGED <<manifestFile, files, proc, committed, grid, seam, band, http, stage, call, venv>>

\* A worker that leaves the cursor where it is while another worker is
\* generating.
WorkerTakeShared(w) ==
    /\ workers.phase = "run"
    /\ workers.pc[w] = "take"
    /\ LET index == workers.cursor
           next == IF \E v \in WorkerIds : v # w /\ workers.pc[v] = "generate"
                   THEN workers.cursor ELSE workers.cursor + 1
       IN  workers' =
               IF index >= workers.prompts
               THEN [workers EXCEPT !.cursor = next, !.pc[w] = "returned"]
               ELSE [workers EXCEPT !.cursor = next, !.pc[w] = "generate",
                                    !.index[w] = index,
                                    !.takenBy[index] = Append(@, w)]
    /\ UNCHANGED <<manifestFile, files, proc, committed, grid, seam, band, http, stage, call, venv>>

\* const index = cursor; cursor += 1; if (index >= prompts.length) return;
WorkerTake(w) ==
    /\ workers.phase = "run"
    /\ workers.pc[w] = "take"
    /\ LET index == workers.cursor
       IN  workers' =
               IF index >= workers.prompts
               THEN [workers EXCEPT !.cursor = @ + 1, !.pc[w] = "returned"]
               ELSE [workers EXCEPT !.cursor = @ + 1, !.pc[w] = "generate",
                                    !.index[w] = index,
                                    !.takenBy[index] = Append(@, w)]
    /\ UNCHANGED <<manifestFile, files, proc, committed, grid, seam, band, http, stage, call, venv>>

\* The try block of one prompt has ended: an output was written and the
\* item is ok, or an error was caught and the item records it.
WorkerSettle(w, ok) ==
    /\ workers.phase = "run"
    /\ workers.pc[w] = "generate"
    /\ workers' = [workers EXCEPT !.items[workers.index[w]] = IF ok THEN "ok" ELSE "error",
                                  !.settled[workers.index[w]] = @ + 1,
                                  !.pc[w] = "take"]
    /\ UNCHANGED <<manifestFile, files, proc, committed, grid, seam, band, http, stage, call, venv>>

ItemsWith(status) == {i \in PromptIndexes : workers.items[i] = status}

\* Promise.all has resolved: the counts of the report are taken from items.
PromiseAll ==
    /\ workers.phase = "run"
    /\ \A w \in WorkerIds : workers.pc[w] = "returned"
    /\ LET ok == Cardinality(ItemsWith("ok"))
       IN  workers' = [workers EXCEPT !.phase = "report",
                           !.report = [prompt_count |-> workers.prompts,
                                       ok_count |-> ok,
                                       error_count |-> workers.prompts - ok]]
    /\ UNCHANGED <<manifestFile, files, proc, committed, grid, seam, band, http, stage, call, venv>>

WorkersExit ==
    /\ workers.phase = "report"
    /\ workers' = WorkersIdle
    /\ UNCHANGED <<manifestFile, files, proc, committed, grid, seam, band, http, stage, call, venv>>

InitWorkers ==
    /\ manifestFile = Absent
    /\ committed = Absent
    /\ files = [p \in AllFiles |-> 0]
    /\ proc = [s \in Stages |-> IdleProc]
    /\ grid = GridIdle
    /\ seam = SeamIdle
    /\ band = BandIdle
    /\ http = HttpIdle
    /\ stage = StageIdle
    /\ call = CallIdle
    /\ venv = VenvIdle
    /\ workers = WorkersIdle

NextWorkers ==
    \/ \E prompts \in PromptCounts, concurrency \in Concurrencies :
           StartWorkers(prompts, concurrency)
    \/ \E w \in (IF workers.phase = "run" THEN WorkerIds ELSE {}) :
        \/ WorkerTake(w)
        \/ \E ok \in BOOLEAN : WorkerSettle(w, ok)
    \/ PromiseAll
    \/ WorkersExit

SpecWorkers == InitWorkers /\ [][NextWorkers]_vars

\* C28: in a batch run with any concurrency and any interleaving of the
\* workers, no prompt index is taken or settled twice while the workers
\* run, and when the report is built every index has been taken by exactly
\* one worker and holds exactly one item, ok or error, so that
\* ok_count + error_count = prompt_count with error_count the number of
\* error items.
C28_EachPromptOnce ==
    /\ workers.phase = "run" =>
           \A i \in PromptIndexes :
               /\ Len(workers.takenBy[i]) <= 1
               /\ workers.settled[i] <= Len(workers.takenBy[i])
    /\ workers.phase = "report" =>
           /\ \A i \in PromptIndexes :
                  /\ Len(workers.takenBy[i]) = 1
                  /\ workers.settled[i] = 1
                  /\ workers.items[i] \in {"ok", "error"}
           /\ workers.report.ok_count = Cardinality(ItemsWith("ok"))
           /\ workers.report.error_count = Cardinality(ItemsWith("error"))
           /\ workers.report.ok_count + workers.report.error_count = workers.report.prompt_count
           /\ workers.report.prompt_count = workers.prompts

\* A report of three prompts shared by two workers, with both outcomes, the
\* later prompt having been settled by the worker that did not take the first.
C28_Witness ==
    /\ workers.phase = "report"
    /\ workers.prompts >= 3
    /\ workers.concurrency >= 2
    /\ workers.takenBy[0] # workers.takenBy[1]
    /\ workers.takenBy[2] = workers.takenBy[1]
    /\ ItemsWith("ok") # {}
    /\ ItemsWith("error") # {}

(***************************************************************************)
(* fetchOsm called again and again on one run, while the raw extract       *)
(* under data/raw/osm is replaced or removed between the calls.            *)
(***************************************************************************)
\* Contents the raw extract can have; 0 = the file is not there.
OsmContents == 0..Len(ShaTable)

\* A manifest edited by hand: sources.osm records a size and no sha256.
SizeOnlyManifest ==
    [FreshManifest(1, AOI_CATALOG["tashkent"]) EXCEPT
        !.osm = [InitOsm EXCEPT !.fetched = TRUE, !.size = Num(statSize(2))]]

\* Between two calls the extract is downloaded again by hand, truncated or removed.
ReplaceOsm(c) ==
    /\ proc[Pipeline].pc = "idle"
    /\ files[RawOsm] # c
    /\ files' = [files EXCEPT ![RawOsm] = c]
    /\ UNCHANGED <<manifestFile, proc, committed, grid, seam, band, http, stage, call, venv, workers>>

InitFetchOsm ==
    /\ manifestFile \in
           {[exists |-> TRUE, bytes |-> JsonStringify(FreshManifest(1, AOI_CATALOG["tashkent"]))],
            [exists |-> TRUE, bytes |-> JsonStringify(SizeOnlyManifest)]}
    /\ committed = manifestFile
    /\ files \in {[p \in AllFiles |-> IF p = RawOsm THEN c ELSE 0] : c \in 0..1}
    /\ proc = [s \in Stages |-> IdleProc]
    /\ grid = GridIdle
    /\ seam = SeamIdle
    /\ band = BandIdle
    /\ http = HttpIdle
    /\ stage = StageIdle
    /\ call = CallIdle
    /\ venv = VenvIdle
    /\ workers = WorkersIdle

NextFetchOsm ==
    \/ \E c \in OsmContents : ReplaceOsm(c)
    \/ \E dryRun \in BOOLEAN, now \in Times : StartFetchOsm(Pipeline, dryRun, now)
    \/ OsmExists(Pipeline)
    \/ OsmRead(Pipeline)
    \/ OsmFetch(Pipeline)
    \/ OsmUpdate(Pipeline)
    \/ WriteOpen(Pipeline)
    \/ WriteData(Pipeline)
    \/ Exit(Pipeline)

SpecFetchOsm == InitFetchOsm /\ [][NextFetchOsm]_vars

\* sources.osm of the manifest the call has read.
RecordedOsm(s) ==
    LET r == JsonParse(proc[s].readBytes)
    IN  IF r.ok /\ HasKey(r.doc, "sources") THEN r.doc.osm ELSE InitOsm

\* The call found the extract on disk, and its sha256 or its size is not the
\* one the manifest records.
OsmDrift(s) ==
    /\ proc[s].op = "osm"
    /\ proc[s].alreadyExists
    /\ \/ /\ IsStr(RecordedOsm(s).sha256)
          /\ RecordedOsm(s).sha256 # Str(sha256File(files[RawOsm]))
       \/ /\ IsNum(RecordedOsm(s).size)
          /\ RecordedOsm(s).size # Num(statSize(files[RawOsm]))

\* C30: when the manifest records a sha256 or a size of the OSM extract and
\* the file found on disk has another sha256 or size, fetchOsm never gets
\* to writing the manifest: the call is still hashing or comparing, or it
\* has thrown a mismatch error, and the manifest file holds the bytes the
\* call has read.
C30_DriftFailsManifestUnchanged ==
    OsmDrift(Pipeline) =>
        /\ proc[Pipeline].pc \in {"osm_fetch", "osm_update", "threw"}
        /\ proc[Pipeline].pc = "threw" =>
               proc[Pipeline].err \in {"sha256-mismatch", "size-mismatch"}
        /\ manifestFile = [exists |-> TRUE, bytes |-> proc[Pipeline].readBytes]

\* An earlier call recorded the sha256 of the extract, the extract was then
\* replaced, and this call has thrown on the difference.
C30_Witness ==
    /\ OsmDrift(Pipeline)
    /\ proc[Pipeline].pc = "threw"
    /\ proc[Pipeline].err = "sha256-mismatch"
    /\ IsStr(RecordedOsm(Pipeline).sha256)
    /\ DiskDoc.doc.osm = RecordedOsm(Pipeline)

====
